---- MODULE Spec2Model ----
\* State-machine model of kapinuss/cothority:
\*   byzcoin/trie/diskdb.go  - diskDB, the boltdb-backed transactional store
\*   calypso/contracts.go    - the calypso Write / Read / LongTermSecret contracts
\*                             and the cothority checker (checkCothority,
\*                             checkRoster, signStatement)
\*   unnamed/part_000        - ChainConfigInstance, the Java client of the
\*                             chain configuration
\* The store is modelled with interleaved transactions (Spec); a transaction
\* function f is an arbitrary sequence of bucket operations followed by a return.
EXTENDS Integers, Sequences, FiniteSets, TLC

\* ------------------------------------------------------------------ bounds
NumProcs == 2
MaxKey == 1
MaxVal == 1

Procs == 1..NumProcs
Keys == 1..MaxKey
\* a stored value; Absent is what Get returns for a key that is not stored (nil)
Absent == 0
Values == 1..MaxVal
Contents == [Keys -> {Absent} \cup Values]
EmptyContent == [k \in Keys |-> Absent]
\* per key, what f wrote last in its transaction: <<>> nothing, <<v>> the value
NoWrites == [k \in Keys |-> <<>>]

\* ------------------------------------------------------------------ errors
\* A Go error value is an object: id is its identity (what == compares for the
\* pointer returned by errors.New), msg is its Error() text.
NilErr == [id |-> "nil", msg |-> ""]
BucketErr == [id |-> "bucketErr", msg |-> "bucket does not exist"]
DryRunErr == [id |-> "dryRunErr", msg |-> "this is a dry-run"]
ClosedErr == [id |-> "ErrDatabaseNotOpen", msg |-> "database not open"]
TxNotWritableErr == [id |-> "ErrTxNotWritable", msg |-> "tx not writable"]
\* the errors a transaction function may return: its own objects, one of them
\* carrying the very text of the dry-run sentinel
FErrs == {[id |-> "ferr1", msg |-> "f failed"], [id |-> "ferr2", msg |-> "this is a dry-run"]}
FRet == {NilErr} \cup FErrs

WriteKinds == {"Update", "UpdateDryRun"}
TxKinds == WriteKinds \cup {"View"}

VARIABLES
    open,       \* the bolt database is open (Close not yet called)
    hasBucket,  \* the logical bucket r.bucket exists in the database
    db,         \* committed content of the bucket
    writer,     \* process holding bolt's writer lock, 0 if none
    pc,         \* per process: "idle" or "run" (inside f)
    kind,       \* per process: the transaction mode it runs
    tx,         \* per process: the bucket its f sees (live pages / snapshot)
    base,       \* per process: committed content when its transaction began
    wrote,      \* per process: last value f wrote per key in this transaction
    ev,         \* the last event: a bucket operation's result or a call's return
    btrie,      \* committed instances of the state trie (the bucket's content)
    bphase,     \* the batch engine: "idle", "run" or "failed"
    bmode,      \* "apply" (applyBatch, Update) or "verify" (verifyBatch, UpdateDryRun)
    blive,      \* instances in the live transaction of the running batch
    bbase,      \* committed instances when the batch began
    bn,         \* number of instructions of the batch
    bpos,       \* number of instructions dispatched so far
    bscs,       \* StateChanges applied so far by the running batch
    berr,       \* error of the instruction that failed, NilErr if none
    bres,       \* the last result an engine call returned
    bobs,       \* the last GetValues of a reader outside the batch
    bcnt,       \* per InstanceID: successful Creates minus successful Deletes
    scres,      \* the result of the last StateChange applied on its own
    lres,       \* the result of the last call of the LongTermSecret contract
    pres,       \* the result of the last verification of a Proof
    cci,        \* the client's ChainConfigInstance object, if one was constructed
    ccall,      \* the call running on the ChainConfigInstance
    cres,       \* what the last call of the chain-configuration client returned
    ck,         \* the frame of checkCothority: its loops, working and totalSuccess
    ss,         \* the frame of the signStatement call that is running
    gor,        \* per signStatement call: the request goroutine it started
    pchan,      \* per signStatement call: the buffer of its pchan
    echan,      \* per signStatement call: the buffer of its echan
    sret        \* what the last signStatement call returned

storeVars == <<open, hasBucket, db, writer, pc, kind, tx, base, wrote, ev>>
batchVars == <<btrie, bphase, bmode, blive, bbase, bn, bpos, bscs, berr, bres, bobs, bcnt, scres, lres, pres>>
configVars == <<cci, ccall, cres>>
signVars == <<ck, ss, gor, pchan, echan, sret>>
clientVars == <<configVars, signVars>>
vars == <<storeVars, batchVars, clientVars>>

NoEv == [type |-> "none", kind |-> "none", err |-> NilErr, invoked |-> FALSE, dirty |-> FALSE]
OpEv(t, K, e) == [type |-> t, kind |-> K, err |-> e, invoked |-> TRUE, dirty |-> FALSE]
RetEv(K, e, inv, d) == [type |-> "ret", kind |-> K, err |-> e, invoked |-> inv, dirty |-> d]

\* ------------------------------------------------------------------ bolt, as called
\* bolt.DB.Update(fn): commit the transaction's pages W iff fn returned nil,
\* roll back to S otherwise; the error of fn is returned.
BoltUpdate(S, W, e) == [store |-> IF e = NilErr THEN W ELSE S, err |-> e]
\* bolt.DB.View(fn): a read-only transaction, always rolled back.
BoltView(S, W, e) == [store |-> S, err |-> e]
\* a transaction begun by db.Update is writable, one begun by db.View is not
TxWritable(K) == K \in WriteKinds
\* db.Update blocks until the writer lock is free
WriterLockIgnored == TRUE
WriterLockFree == writer = 0
\* the pages a read-only transaction reads: its snapshot, whatever the
\* writer does meanwhile
ViewBucketLive(p) == IF writer # 0 THEN tx[writer] ELSE db
ViewBucket(p) == tx[p]
\* Put and Delete on a bucket of a read-only transaction fail
BucketPutErr(K) == IF TxWritable(K) THEN NilErr ELSE TxNotWritableErr

\* ------------------------------------------------------------------ diskDB
\* tx.Bucket(r.bucket) != nil
BucketFound == hasBucket

\* the function handed to bolt by Update / View: the nil-check, then f
InnerFn(found, e) == IF ~found THEN BucketErr ELSE e

DiskUpdateNoRollback(found, S, W, e) == [store |-> IF found THEN W ELSE S, err |-> InnerFn(found, e)]
DiskUpdateDiscards(found, S, W, e) == [store |-> S, err |-> InnerFn(found, e)]
DiskUpdate(found, S, W, e) == BoltUpdate(S, IF found THEN W ELSE S, InnerFn(found, e))

DiskViewAsUpdate(found, S, W, e) == BoltUpdate(S, IF found THEN W ELSE S, InnerFn(found, e))
DiskView(found, S, W, e) == BoltView(S, W, InnerFn(found, e))

\* err != dryRunErr compares the error objects, not their texts
IsSentinelByMsg(err) == err.msg = DryRunErr.msg
IsSentinel(err) == err = DryRunErr

DryRunInner(found, e) ==
    IF ~found THEN BucketErr
    ELSE IF e # NilErr THEN e
    ELSE DryRunErr

DiskUpdateDryRunCommits(found, S, W, e) == BoltUpdate(S, IF found THEN W ELSE S, InnerFn(found, e))
DiskUpdateDryRunMasks(found, S, W, e) == [store |-> S, err |-> IF found THEN e ELSE NilErr]
DiskUpdateDryRun(found, S, W, e) ==
    LET r == BoltUpdate(S, IF found THEN W ELSE S, DryRunInner(found, e))
    IN  [store |-> r.store, err |-> IF ~IsSentinel(r.err) THEN r.err ELSE NilErr]

\* Update / View / UpdateDryRun after Close: r.db.Update and r.db.View return
\* bolt's error without calling the function handed to them, and UpdateDryRun
\* passes on any error that is not its sentinel
ClosedOutcomeDryRunNil(K, S) ==
    [store |-> S, err |-> IF K = "UpdateDryRun" THEN NilErr ELSE ClosedErr]
ClosedOutcome(K, S) ==
    [store |-> S, err |-> IF K = "UpdateDryRun" /\ IsSentinel(ClosedErr) THEN NilErr ELSE ClosedErr]

Outcome(K, found, S, W, e) ==
    CASE K = "Update" -> DiskUpdate(found, S, W, e)
      [] K = "View" -> DiskView(found, S, W, e)
      [] K = "UpdateDryRun" -> DiskUpdateDryRun(found, S, W, e)

\* diskBucket.Get inside the transaction of process p: a read has no effect on
\* the state, so it is the value any read of k would return now
BucketGet(p, k) == IF TxWritable(kind[p]) THEN tx[p][k] ELSE ViewBucket(p)[k]

\* what f's own writes make of the content S it started from
Overlay(S, w) == [k \in Keys |-> IF w[k] = <<>> THEN S[k] ELSE w[k][1]]

\* the trie's digest of a content: a function of the set of pairs stored
RootHash(c) == {<<k, c[k]>> : k \in {x \in Keys : c[x] # Absent}}

\* ------------------------------------------------------------------ instances
MaxInst == 2
MaxBatch == 3
MaxVersion == 2

\* InstanceIDs; ConfigID is the all-zero identifier of the chain configuration
ConfigID == 0
IIDs == ConfigID..MaxInst
ContractWriteID == "calypsoWrite"
ContractReadID == "calypsoRead"
ConfigContractID == "config"
GenesisDarc == "darc0"
OtherDarc == "darc1"

\* An argument / stored value is a byte string; tag says what it decodes to:
\*   "missing"  nil or empty          "garbled"  decodes to nothing
\*   "write"    a Write whose proof checks        "badproof" a Write whose proof fails
\*   "read"     a Read whose Write field is ref   "config"   a chain configuration
\*   "lts"      an LtsInstanceInfo whose Roster.List is ros
Buf(t, r) == [tag |-> t, ref |-> r, ros |-> <<>>]
NoBuf == Buf("missing", ConfigID)
WriteArgs == {Buf(t, ConfigID) : t \in {"missing", "garbled", "badproof", "write"}}
ReadArgs == {Buf(t, ConfigID) : t \in {"missing", "garbled"}} \cup {Buf("read", i) : i \in IIDs}

NoInst == [cid |-> "none", val |-> NoBuf, ver |-> 0, darc |-> "none"]
GenesisTrie == [i \in IIDs |-> IF i = ConfigID
                               THEN [cid |-> ConfigContractID, val |-> Buf("config", ConfigID),
                                     ver |-> 0, darc |-> GenesisDarc]
                               ELSE NoInst]

\* contract and engine errors, by the text the code gives them
ErrNotFound == [id |-> "NotFound", msg |-> "key not set"]
ErrNeedWrite == [id |-> "MissingArgument", msg |-> "need a write request in 'write' argument"]
ErrUnmarshalWrite == [id |-> "DecodeError", msg |-> "couldn't unmarshal write"]
ErrProof == [id |-> "InvalidProof", msg |-> "proof of write failed"]
ErrNeedRead == [id |-> "MissingArgumentRead", msg |-> "need a read argument"]
ErrUnmarshalRead == [id |-> "DecodeErrorRead", msg |-> "passed read argument is invalid"]
ErrWriteIDNotCorrect == [id |-> "InvalidReference", msg |-> "referenced write-id is not correct"]
ErrNotAWrite == [id |-> "InvalidReferenceContract", msg |-> "referenced write-id is not a write instance"]
ErrCanOnlySpawn == [id |-> "UnsupportedSpawn", msg |-> "can only spawn writes and reads"]
ErrReadNeverInstantiated == [id |-> "ReadFromBytes", msg |-> "calypso read instances are never instantiated"]
ErrUnsupported == [id |-> "UnsupportedOperation", msg |-> "contract does not implement this operation"]
ErrUnknownContract == [id |-> "UnknownContract", msg |-> "no such contract"]
ErrStateChange == [id |-> "StateChangeFailed", msg |-> "state change cannot be applied"]

ErrCanOnlySpawnLTS == [id |-> "UnsupportedSpawnLTS", msg |-> "can only spawn long-term-secret instances"]
ErrNeedLtsInfo == [id |-> "MissingArgumentLTS", msg |-> "need a lts_instance_info argument"]
ErrUnmarshalLtsInfo == [id |-> "DecodeErrorLTS", msg |-> "passed lts_instance_info argument is invalid"]
ErrCurInfo == [id |-> "DecodeErrorCurLTS", msg |-> "current info is invalid"]
ErrCanOnlyReshare == [id |-> "UnsupportedCommand", msg |-> "can only reshare long-term secrets"]
ErrOverlap == [id |-> "InsufficientOverlap", msg |-> "new roster does not overlap enough with current roster"]

\* exceptions of the Java client, by class and message
ExcWrongContract == [id |-> "CothorityNotFoundException", msg |-> "this is not a value instance"]
ExcNoInstance == [id |-> "CothorityNotFoundException", msg |-> "instance is not in the ledger"]
ExcCommunication == [id |-> "CothorityCommunicationException", msg |-> "request failed"]
ExcCrypto == [id |-> "CothorityCryptoException", msg |-> "signing failed"]

\* the condition of the error taxonomy an error stands for
Condition(e) ==
    CASE e = NilErr -> "none"
      [] e \in {ErrNotFound, ExcWrongContract, ExcNoInstance} -> "NotFound"
      [] e \in {ErrNeedWrite, ErrNeedRead, ErrNeedLtsInfo} -> "MissingArgument"
      [] e \in {ErrUnmarshalWrite, ErrUnmarshalRead, ErrUnmarshalLtsInfo, ErrCurInfo} -> "DecodeError"
      [] e = ErrCanOnlyReshare -> "UnsupportedCommand"
      [] e = ErrOverlap -> "InsufficientOverlap"
      [] e = ErrProof -> "InvalidProof"
      [] e \in {ErrWriteIDNotCorrect, ErrNotAWrite} -> "InvalidReference"
      [] e \in {ErrUnsupported, ErrReadNeverInstantiated} -> "UnsupportedOperation"
      [] OTHER -> "other"

\* Instructions. did is the InstanceID that inst.DeriveID("") hashes the
\* instruction to.
SpawnInst(i, c, a, d) == [type |-> "Spawn", iid |-> i, cid |-> c, arg |-> a, did |-> d, cmd |-> ""]
OtherInst(t, i, d) == [type |-> t, iid |-> i, cid |-> "none", arg |-> NoBuf, did |-> d, cmd |-> ""]
Instructions ==
    {SpawnInst(i, ContractWriteID, a, d) : i \in IIDs, a \in WriteArgs, d \in IIDs \ {ConfigID}}
    \cup {SpawnInst(i, ContractReadID, a, d) : i \in IIDs, a \in ReadArgs, d \in IIDs \ {ConfigID}}
    \cup {OtherInst(t, i, d) : t \in {"Invoke", "Delete"}, i \in IIDs, d \in IIDs \ {ConfigID}}
DeriveID(inst) == inst.did

NewStateChange(a, i, c, v, d) == [action |-> a, iid |-> i, cid |-> c, val |-> v, darc |-> d]
StateChanges ==
    {NewStateChange(a, i, c, Buf("write", ConfigID), GenesisDarc) :
        a \in {"Create", "Update", "Delete"}, i \in IIDs,
        c \in {ContractWriteID, ContractReadID}}

\* ReadOnlyStateTrie.GetValues over the instances T
GetValues(T, i) ==
    IF T[i] = NoInst THEN [err |-> ErrNotFound, inst |-> NoInst]
    ELSE [err |-> NilErr, inst |-> T[i]]

\* protobuf.DecodeWithConstructors into a Write / a Read
DecodesAsWrite(b) == b.tag \in {"write", "badproof"}
DecodesAsRead(b) == b.tag = "read"
\* Write.CheckProof(suite, darcID): the oracle carried by the payload
CheckProof(b, darcID) == b.tag = "write"

Fail(e) == [err |-> e, scs |-> <<>>]
Emit(scs) == [err |-> NilErr, scs |-> scs]

\* contractWr.Spawn, its "write" case
SpawnWriteNoProof(inst, darcID) ==
    LET w == inst.arg
    IN  IF w.tag = "missing" THEN Fail(ErrNeedWrite)
        ELSE IF ~DecodesAsWrite(w) THEN Fail(ErrUnmarshalWrite)
        ELSE Emit(<<NewStateChange("Create", DeriveID(inst), ContractWriteID, w, darcID)>>)
SpawnWrite(inst, darcID) ==
    LET w == inst.arg
    IN  IF w.tag = "missing" THEN Fail(ErrNeedWrite)
        ELSE IF ~DecodesAsWrite(w) THEN Fail(ErrUnmarshalWrite)
        ELSE IF ~CheckProof(w, darcID) THEN Fail(ErrProof)
        ELSE Emit(<<NewStateChange("Create", DeriveID(inst), ContractWriteID, w, darcID)>>)

\* contractWr.Spawn, its "read" case
SpawnReadUnchecked(rst, inst, darcID) ==
    LET r == inst.arg
    IN  IF r.tag = "missing" THEN Fail(ErrNeedRead)
        ELSE IF ~DecodesAsRead(r) THEN Fail(ErrUnmarshalRead)
        ELSE Emit(<<NewStateChange("Create", DeriveID(inst), ContractReadID, r, darcID)>>)
SpawnReadAnyContract(rst, inst, darcID) ==
    LET r == inst.arg
    IN  IF r.tag = "missing" THEN Fail(ErrNeedRead)
        ELSE IF ~DecodesAsRead(r) THEN Fail(ErrUnmarshalRead)
        ELSE LET wv == GetValues(rst, r.ref)
             IN  IF wv.err # NilErr THEN Fail(ErrWriteIDNotCorrect)
                 ELSE Emit(<<NewStateChange("Create", DeriveID(inst), ContractReadID, r, darcID)>>)
SpawnReadChecksSpawner(rst, inst, darcID) ==
    LET r == inst.arg
    IN  IF r.tag = "missing" THEN Fail(ErrNeedRead)
        ELSE IF ~DecodesAsRead(r) THEN Fail(ErrUnmarshalRead)
        ELSE LET wv == GetValues(rst, inst.iid)
             IN  IF wv.err # NilErr THEN Fail(ErrWriteIDNotCorrect)
                 ELSE IF wv.inst.cid # ContractWriteID THEN Fail(ErrNotAWrite)
                 ELSE Emit(<<NewStateChange("Create", DeriveID(inst), ContractReadID, r, darcID)>>)
SpawnRead(rst, inst, darcID) ==
    LET r == inst.arg
    IN  IF r.tag = "missing" THEN Fail(ErrNeedRead)
        ELSE IF ~DecodesAsRead(r) THEN Fail(ErrUnmarshalRead)
        ELSE LET wv == GetValues(rst, r.ref)
             IN  IF wv.err # NilErr THEN Fail(ErrWriteIDNotCorrect)
                 ELSE IF wv.inst.cid # ContractWriteID THEN Fail(ErrNotAWrite)
                 ELSE Emit(<<NewStateChange("Create", DeriveID(inst), ContractReadID, r, darcID)>>)

\* contractWr.Spawn
ContractWrSpawnByTarget(rst, inst) ==
    LET tgt == GetValues(rst, inst.iid)
    IN  IF tgt.err # NilErr THEN Fail(tgt.err)
        ELSE CASE tgt.inst.cid = ContractWriteID -> SpawnWrite(inst, tgt.inst.darc)
               [] tgt.inst.cid = ContractReadID -> SpawnRead(rst, inst, tgt.inst.darc)
               [] OTHER -> Fail(ErrCanOnlySpawn)
ContractWrSpawn(rst, inst) ==
    LET tgt == GetValues(rst, inst.iid)
    IN  IF tgt.err # NilErr THEN Fail(tgt.err)
        ELSE CASE inst.cid = ContractWriteID -> SpawnWrite(inst, tgt.inst.darc)
               [] inst.cid = ContractReadID -> SpawnRead(rst, inst, tgt.inst.darc)
               [] OTHER -> Fail(ErrCanOnlySpawn)

\* contractWriteFromBytes / contractReadFromBytes: the error of the constructor
ContractWriteFromBytes(b) == IF DecodesAsWrite(b) THEN NilErr ELSE ErrUnmarshalWrite
ContractReadFromBytes(b) == ErrReadNeverInstantiated

\* byzcoin.BasicContract: Invoke and Delete of a contract that defines neither
BasicContractDefault == Fail(ErrUnsupported)

\* ------------------------------------------------------------------ LongTermSecret
MaxRoster == 7

ContractLongTermSecretID == "longTermSecret"

\* A roster is the list Roster.List of identities. The rosters tried: the
\* first n identities for every n, the identities from a on, and one identity
\* listed several times.
Identities == 1..(MaxRoster + 1)
Interval(a, b) == [i \in 1..(b - a + 1) |-> a + i - 1]
Repeat(x, k) == [i \in 1..k |-> x]
Rosters ==
    {Interval(1, n) : n \in 0..MaxRoster}
    \cup {Interval(a, MaxRoster + 1) : a \in 2..(MaxRoster + 1)}
    \cup {Repeat(1, k) : k \in (MaxRoster - 2)..MaxRoster}

\* the bytes of an LtsInstanceInfo holding the roster ros
LtsInfo(t, ros) == [tag |-> t, ref |-> ConfigID, ros |-> ros]
LtsArgs == {LtsInfo("missing", <<>>), LtsInfo("garbled", <<>>)} \cup {LtsInfo("lts", r) : r \in Rosters}
DecodesAsLtsInfo(b) == b.tag = "lts"

LtsSpawnInst(i, a) ==
    [type |-> "Spawn", iid |-> i, cid |-> ContractLongTermSecretID, arg |-> a,
     did |-> ConfigID + 1, cmd |-> ""]
LtsInvokeInst(i, c, a) ==
    [type |-> "Invoke", iid |-> i, cid |-> "none", arg |-> a, did |-> MaxInst, cmd |-> c]
LtsInstructions ==
    {LtsSpawnInst(i, a) : i \in IIDs, a \in LtsArgs}
    \cup {LtsInvokeInst(i, "reshare", a) : i \in IIDs, a \in LtsArgs}
    \cup {LtsInvokeInst(i, "rename", a) :
            i \in IIDs, a \in {LtsInfo("missing", <<>>), LtsInfo("lts", Interval(1, MaxRoster))}}

\* onet's Roster.Search: the index of the identity in the list, -1 if none
RosterSearch(r, id) ==
    IF \E i \in 1..Len(r) : r[i] = id
    THEN (CHOOSE i \in 1..Len(r) : r[i] = id /\ \A j \in 1..(i - 1) : r[j] # id) - 1
    ELSE -1

\* intersectRosters: one more for every entry of r2's list found in r1
IntersectRosters(r1, r2) ==
    Cardinality({i \in 1..Len(r2) : RosterSearch(r1, r2[i]) # -1})

\* Go's integer division truncates toward zero
GoDiv(a, b) == IF a >= 0 THEN a \div b ELSE -((-a) \div b)

\* thr := n - (n-1)/3
ThresholdMajority(n) == n \div 2 + 1
Threshold(n) == n - GoDiv(n - 1, 3)

\* contractLTSFromBytes: the error of the constructor
ContractLTSFromBytes(b) == IF DecodesAsLtsInfo(b) THEN NilErr ELSE ErrUnmarshalLtsInfo

\* contractLTS.Spawn
ContractLTSSpawn(rst, inst) ==
    LET tgt == GetValues(rst, inst.iid)
        infoBuf == inst.arg
    IN  IF tgt.err # NilErr THEN Fail(tgt.err)
        ELSE IF inst.cid # ContractLongTermSecretID THEN Fail(ErrCanOnlySpawnLTS)
        ELSE IF infoBuf.tag = "missing" THEN Fail(ErrNeedLtsInfo)
        ELSE IF ~DecodesAsLtsInfo(infoBuf) THEN Fail(ErrUnmarshalLtsInfo)
        ELSE Emit(<<NewStateChange("Create", DeriveID(inst), ContractLongTermSecretID,
                                   infoBuf, tgt.inst.darc)>>)

\* contractLTS.Invoke
ContractLTSInvokeDerived(rst, inst) ==
    LET tgt == GetValues(rst, inst.iid)
        curBuf == tgt.inst.val
        infoBuf == inst.arg
    IN  IF tgt.err # NilErr THEN Fail(tgt.err)
        ELSE IF inst.cmd # "reshare" THEN Fail(ErrCanOnlyReshare)
        ELSE IF infoBuf.tag = "missing" THEN Fail(ErrNeedLtsInfo)
        ELSE IF ~DecodesAsLtsInfo(infoBuf) THEN Fail(ErrUnmarshalLtsInfo)
        ELSE IF ~DecodesAsLtsInfo(curBuf) THEN Fail(ErrCurInfo)
        ELSE LET n == Len(curBuf.ros)
                 overlap == IntersectRosters(curBuf.ros, infoBuf.ros)
                 thr == Threshold(n)
             IN  IF overlap < thr THEN Fail(ErrOverlap)
                 ELSE Emit(<<NewStateChange("Update", DeriveID(inst), ContractLongTermSecretID,
                                            infoBuf, tgt.inst.darc)>>)
ContractLTSInvoke(rst, inst) ==
    LET tgt == GetValues(rst, inst.iid)
        curBuf == tgt.inst.val
        infoBuf == inst.arg
    IN  IF tgt.err # NilErr THEN Fail(tgt.err)
        ELSE IF inst.cmd # "reshare" THEN Fail(ErrCanOnlyReshare)
        ELSE IF infoBuf.tag = "missing" THEN Fail(ErrNeedLtsInfo)
        ELSE IF ~DecodesAsLtsInfo(infoBuf) THEN Fail(ErrUnmarshalLtsInfo)
        ELSE IF ~DecodesAsLtsInfo(curBuf) THEN Fail(ErrCurInfo)
        ELSE LET n == Len(curBuf.ros)
                 overlap == IntersectRosters(curBuf.ros, infoBuf.ros)
                 thr == Threshold(n)
             IN  IF overlap < thr THEN Fail(ErrOverlap)
                 ELSE Emit(<<NewStateChange("Update", inst.iid, ContractLongTermSecretID,
                                            infoBuf, tgt.inst.darc)>>)

\* contractWr and contractRe embed byzcoin.BasicContract and define neither
\* Invoke nor Delete
ContractWrInvoke(rst, inst) == BasicContractDefault
ContractWrDeleteRemoves(rst, inst) ==
    Emit(<<NewStateChange("Delete", inst.iid, ContractWriteID, NoBuf, GetValues(rst, inst.iid).inst.darc)>>)
ContractWrDelete(rst, inst) == BasicContractDefault
ContractReInvoke(rst, inst) == BasicContractDefault
ContractReDelete(rst, inst) == BasicContractDefault

\* The dispatch engine: a Spawn naming the Write or the Read contract runs
\* contractWr.Spawn, which selects by the contract ID the Spawn names; Invoke
\* and Delete go to the implementation of the contract ID stored at the target,
\* built from the stored value.
Execute(rst, inst) ==
    IF inst.type = "Spawn"
    THEN IF inst.cid \in {ContractWriteID, ContractReadID}
         THEN ContractWrSpawn(rst, inst)
         ELSE IF inst.cid = ContractLongTermSecretID
         THEN ContractLTSSpawn(rst, inst)
         ELSE Fail(ErrUnknownContract)
    ELSE LET tgt == GetValues(rst, inst.iid)
         IN  IF tgt.err # NilErr THEN Fail(tgt.err)
             ELSE CASE tgt.inst.cid = ContractWriteID ->
                         IF ContractWriteFromBytes(tgt.inst.val) # NilErr
                         THEN Fail(ContractWriteFromBytes(tgt.inst.val))
                         ELSE IF inst.type = "Invoke" THEN ContractWrInvoke(rst, inst)
                         ELSE ContractWrDelete(rst, inst)
                    [] tgt.inst.cid = ContractReadID ->
                         IF ContractReadFromBytes(tgt.inst.val) # NilErr
                         THEN Fail(ContractReadFromBytes(tgt.inst.val))
                         ELSE IF inst.type = "Invoke" THEN ContractReInvoke(rst, inst)
                         ELSE ContractReDelete(rst, inst)
                    [] tgt.inst.cid = ContractLongTermSecretID ->
                         IF ContractLTSFromBytes(tgt.inst.val) # NilErr
                         THEN Fail(ContractLTSFromBytes(tgt.inst.val))
                         ELSE IF inst.type = "Invoke" THEN ContractLTSInvoke(rst, inst)
                         ELSE BasicContractDefault
                    [] OTHER -> Fail(ErrUnknownContract)

\* Applying one StateChange to the instances T
ApplySCUnchecked(T, sc) ==
    [ok |-> TRUE,
     trie |-> [T EXCEPT ![sc.iid] =
                 IF sc.action = "Delete" THEN NoInst
                 ELSE [cid |-> sc.cid, val |-> sc.val, ver |-> 0, darc |-> sc.darc]]]
\* a Delete that leaves a marker behind instead of removing the instance
ApplySCTombstone(T, sc) ==
    CASE sc.action = "Create" ->
           IF T[sc.iid] # NoInst THEN [ok |-> FALSE, trie |-> T]
           ELSE [ok |-> TRUE,
                 trie |-> [T EXCEPT ![sc.iid] =
                             [cid |-> sc.cid, val |-> sc.val, ver |-> 0, darc |-> sc.darc]]]
      [] sc.action = "Update" ->
           IF T[sc.iid] = NoInst THEN [ok |-> FALSE, trie |-> T]
           ELSE [ok |-> TRUE,
                 trie |-> [T EXCEPT ![sc.iid] =
                             [cid |-> sc.cid, val |-> sc.val, ver |-> T[sc.iid].ver + 1,
                              darc |-> sc.darc]]]
      [] sc.action = "Delete" ->
           IF T[sc.iid] = NoInst THEN [ok |-> FALSE, trie |-> T]
           ELSE [ok |-> TRUE,
                 trie |-> [T EXCEPT ![sc.iid] = [NoInst EXCEPT !.cid = "deleted"]]]
\* a Create that stamps the instance with a running number instead of version 0
ApplySCStamped(T, sc) ==
    CASE sc.action = "Create" ->
           IF T[sc.iid] # NoInst THEN [ok |-> FALSE, trie |-> T]
           ELSE [ok |-> TRUE,
                 trie |-> [T EXCEPT ![sc.iid] =
                             [cid |-> sc.cid, val |-> sc.val,
                              ver |-> Cardinality({i \in IIDs : T[i] # NoInst}),
                              darc |-> sc.darc]]]
      [] sc.action = "Update" ->
           IF T[sc.iid] = NoInst THEN [ok |-> FALSE, trie |-> T]
           ELSE [ok |-> TRUE,
                 trie |-> [T EXCEPT ![sc.iid] =
                             [cid |-> sc.cid, val |-> sc.val, ver |-> T[sc.iid].ver + 1,
                              darc |-> sc.darc]]]
      [] sc.action = "Delete" ->
           IF T[sc.iid] = NoInst THEN [ok |-> FALSE, trie |-> T]
           ELSE [ok |-> TRUE, trie |-> [T EXCEPT ![sc.iid] = NoInst]]
ApplySC(T, sc) ==
    CASE sc.action = "Create" ->
           IF T[sc.iid] # NoInst THEN [ok |-> FALSE, trie |-> T]
           ELSE [ok |-> TRUE,
                 trie |-> [T EXCEPT ![sc.iid] =
                             [cid |-> sc.cid, val |-> sc.val, ver |-> 0, darc |-> sc.darc]]]
      [] sc.action = "Update" ->
           IF T[sc.iid] = NoInst THEN [ok |-> FALSE, trie |-> T]
           ELSE [ok |-> TRUE,
                 trie |-> [T EXCEPT ![sc.iid] =
                             [cid |-> sc.cid, val |-> sc.val, ver |-> T[sc.iid].ver + 1,
                              darc |-> sc.darc]]]
      [] sc.action = "Delete" ->
           IF T[sc.iid] = NoInst THEN [ok |-> FALSE, trie |-> T]
           ELSE [ok |-> TRUE, trie |-> [T EXCEPT ![sc.iid] = NoInst]]

\* The StateChanges of one instruction, in order, all or nothing
RECURSIVE ApplyAllFrom(_, _, _)
ApplyAllFrom(T0, T, scs) ==
    IF scs = <<>> THEN [ok |-> TRUE, trie |-> T]
    ELSE LET r == ApplySC(T, Head(scs))
         IN  IF ~r.ok THEN [ok |-> FALSE, trie |-> T0]
             ELSE ApplyAllFrom(T0, r.trie, Tail(scs))
ApplyAll(T, scs) == ApplyAllFrom(T, T, scs)

\* One instruction on the instances T: dispatched, then its StateChanges applied
RunInstr(T, inst) ==
    LET r == Execute(T, inst)
        a == ApplyAll(T, r.scs)
    IN  IF r.err = NilErr /\ a.ok
        THEN [err |-> NilErr, trie |-> a.trie, scs |-> r.scs]
        ELSE [err |-> IF r.err # NilErr THEN r.err ELSE ErrStateChange, trie |-> T, scs |-> <<>>]

\* A batch on the instances T, as the committing variant leaves them: the
\* instructions in order, up to the first that fails
RECURSIVE RunBatch(_, _)
RunBatch(T, insts) ==
    IF insts = <<>> THEN [err |-> NilErr, trie |-> T]
    ELSE LET r == RunInstr(T, Head(insts))
         IN  IF r.err # NilErr THEN [err |-> r.err, trie |-> T]
             ELSE RunBatch(r.trie, Tail(insts))

\* ------------------------------------------------------------------ the authenticated trie
\* A digest is modelled by the structure it digests: equal digests, equal
\* content. The trie is a binary tree over the InstanceIDs; a key that is not
\* stored has the empty leaf.
LeafHash(k, v) == <<"leaf", k, v>>
NodeHash(l, r) == <<"node", l, r>>
RECURSIVE SubtreeHash(_, _, _)
SubtreeHash(T, lo, hi) ==
    IF lo = hi THEN LeafHash(lo, T[lo])
    ELSE LET mid == (lo + hi) \div 2
         IN  NodeHash(SubtreeHash(T, lo, mid), SubtreeHash(T, mid + 1, hi))
\* RootHash() of the trie holding the instances T
TrieRootHash(T) == SubtreeHash(T, ConfigID, MaxInst)

\* Prove(key): the leaf at the key's position and the sibling digests on the
\* way from it up to the root
RECURSIVE ProvePath(_, _, _, _)
ProvePath(T, k, lo, hi) ==
    IF lo = hi THEN <<>>
    ELSE LET mid == (lo + hi) \div 2
         IN  IF k <= mid
             THEN Append(ProvePath(T, k, lo, mid),
                         [side |-> "right", hash |-> SubtreeHash(T, mid + 1, hi)])
             ELSE Append(ProvePath(T, k, mid + 1, hi),
                         [side |-> "left", hash |-> SubtreeHash(T, lo, mid)])
Prove(T, k) == [key |-> k, val |-> T[k], path |-> ProvePath(T, k, ConfigID, MaxInst)]

\* the digest a leaf digest and the siblings above it add up to
RECURSIVE FoldPath(_, _)
FoldPath(h, path) ==
    IF path = <<>> THEN h
    ELSE FoldPath(IF Head(path).side = "right" THEN NodeHash(h, Head(path).hash)
                  ELSE NodeHash(Head(path).hash, h),
                  Tail(path))

\* Proof.Verify(rootHash, key, expectedValueOrAbsence); absence is NoInst
VerifyAnyValue(R, k, v, P) ==
    /\ P.key = k
    /\ FoldPath(LeafHash(P.key, P.val), P.path) = R
Verify(R, k, v, P) ==
    /\ P.key = k
    /\ P.val = v
    /\ FoldPath(LeafHash(P.key, P.val), P.path) = R

NoRes == [type |-> "none", mode |-> "none", err |-> NilErr, n |-> 0, pos |-> 0, nsc |-> 0]
BatchRes(m, e, n, pos, nsc) == [type |-> "batch", mode |-> m, err |-> e, n |-> n, pos |-> pos, nsc |-> nsc]
NoObs == [seen |-> FALSE, iid |-> ConfigID, inst |-> NoInst]
NoSCRes == [type |-> "none", sc |-> NewStateChange("none", ConfigID, "none", NoBuf, "none"),
            ok |-> FALSE, existed |-> FALSE, before |-> GenesisTrie,
            recreates |-> FALSE, old |-> NoInst]

NoLRes == [type |-> "none", inst |-> LtsInvokeInst(ConfigID, "", LtsInfo("missing", <<>>)),
           err |-> NilErr, scs |-> <<>>, before |-> NoInst]
NoPRes == [type |-> "none", key |-> ConfigID, claimed |-> NoInst, root |-> <<>>, ok |-> FALSE]

\* the chain-configuration client before any call
NoInstance == [id |-> ConfigID, inst |-> NoInst]
NoCci == [exists |-> FALSE, instance |-> NoInstance, chainConfig |-> NoBuf]
NoCall == [op |-> "none", pc |-> "idle", newConfig |-> NoBuf, wait |-> 0, rounds |-> 0, pending |-> {}]
NoCRes == [op |-> "none", err |-> NilErr, id |-> ConfigID, tag |-> "none", wait |-> 0, rounds |-> 0]
ConfigIdle ==
    /\ cci = NoCci
    /\ ccall = NoCall
    /\ cres = NoCRes
\* the cothority checker before any call
NumServers == 2
Servers == 1..NumServers
\* int(math.Sqrt(float64(n)))
IntSqrt(n) == CHOOSE r \in 0..n : r * r <= n /\ (r + 1) * (r + 1) > n
\* the most signStatement calls one checkCothority makes
MaxCalls == NumServers + (IntSqrt(NumServers) + 1) + NumServers * (NumServers - 1)
Calls == 1..MaxCalls
NoCk == [pc |-> "idle", detail |-> FALSE, e |-> 0, j |-> 0, pi |-> 0, working |-> <<>>,
         totalSuccess |-> TRUE, anyFailed |-> FALSE, ret |-> NilErr]
NoSs == [pc |-> "none", call |-> 0]
NoGor == [pc |-> "none", err |-> NilErr, sig |-> FALSE, hash |-> FALSE]
NoSRet == [call |-> 0, kind |-> "none", err |-> NilErr, sig |-> FALSE, hash |-> FALSE]
SignIdle ==
    /\ ck = NoCk
    /\ ss = NoSs
    /\ gor = [k \in Calls |-> NoGor]
    /\ pchan = [k \in Calls |-> <<>>]
    /\ echan = [k \in Calls |-> <<>>]
    /\ sret = NoSRet
ClientIdle ==
    /\ ConfigIdle
    /\ SignIdle

BatchInit ==
    /\ btrie = GenesisTrie
    /\ bphase = "idle"
    /\ bmode = "none"
    /\ blive = GenesisTrie
    /\ bbase = GenesisTrie
    /\ bn = 0
    /\ bpos = 0
    /\ bscs = <<>>
    /\ berr = NilErr
    /\ bres = NoRes
    /\ bobs = NoObs
    /\ bcnt = [i \in IIDs |-> IF i = ConfigID THEN 1 ELSE 0]
    /\ scres = NoSCRes
    /\ lres = NoLRes
    /\ pres = NoPRes

\* ------------------------------------------------------------------ actions
Init ==
    /\ BatchInit
    /\ ClientIdle
    /\ open = TRUE
    /\ hasBucket \in BOOLEAN
    /\ db = EmptyContent
    /\ writer = 0
    /\ pc = [p \in Procs |-> "idle"]
    /\ kind = [p \in Procs |-> "none"]
    /\ tx = [p \in Procs |-> EmptyContent]
    /\ base = [p \in Procs |-> EmptyContent]
    /\ wrote = [p \in Procs |-> NoWrites]
    /\ ev = NoEv

\* a call on a closed database: bolt refuses to begin the transaction
CallClosed(p, K) ==
    /\ pc[p] = "idle"
    /\ ~open
    /\ LET r == ClosedOutcome(K, db)
       IN  /\ db' = r.store
           /\ ev' = RetEv(K, r.err, FALSE, FALSE)
    /\ UNCHANGED <<clientVars, batchVars, open, hasBucket, writer, pc, kind, tx, base, wrote>>

\* a call whose bucket lookup returns nil: the inner function returns at once
CallNoBucket(p, K) ==
    /\ pc[p] = "idle"
    /\ open
    /\ TxWritable(K) => WriterLockFree
    /\ ~BucketFound
    /\ LET r == Outcome(K, FALSE, db, db, NilErr)
       IN  /\ db' = r.store
           /\ ev' = RetEv(K, r.err, FALSE, FALSE)
    /\ UNCHANGED <<clientVars, batchVars, open, hasBucket, writer, pc, kind, tx, base, wrote>>

\* Update / View / UpdateDryRun up to the call of f
Begin(p, K) ==
    /\ pc[p] = "idle"
    /\ open
    /\ TxWritable(K) => WriterLockFree
    /\ BucketFound
    /\ pc' = [pc EXCEPT ![p] = "run"]
    /\ kind' = [kind EXCEPT ![p] = K]
    /\ tx' = [tx EXCEPT ![p] = db]
    /\ base' = [base EXCEPT ![p] = db]
    /\ wrote' = [wrote EXCEPT ![p] = NoWrites]
    /\ writer' = IF TxWritable(K) THEN p ELSE writer
    /\ ev' = NoEv
    /\ UNCHANGED <<clientVars, batchVars, open, hasBucket, db>>

\* f calls diskBucket.Put
Put(p, k, v) ==
    /\ pc[p] = "run"
    /\ IF BucketPutErr(kind[p]) = NilErr
       THEN /\ tx' = [tx EXCEPT ![p][k] = v]
            /\ wrote' = [wrote EXCEPT ![p][k] = <<v>>]
            /\ ev' = NoEv
       ELSE /\ ev' = OpEv("put", kind[p], BucketPutErr(kind[p]))
            /\ UNCHANGED <<tx, wrote>>
    /\ UNCHANGED <<clientVars, batchVars, open, hasBucket, db, writer, pc, kind, base>>

\* f calls diskBucket.Delete
Delete(p, k) ==
    /\ pc[p] = "run"
    /\ IF BucketPutErr(kind[p]) = NilErr
       THEN /\ tx' = [tx EXCEPT ![p][k] = Absent]
            /\ wrote' = [wrote EXCEPT ![p][k] = <<Absent>>]
            /\ ev' = NoEv
       ELSE /\ ev' = OpEv("del", kind[p], BucketPutErr(kind[p]))
            /\ UNCHANGED <<tx, wrote>>
    /\ UNCHANGED <<clientVars, batchVars, open, hasBucket, db, writer, pc, kind, base>>

\* f returns e; bolt commits or rolls back and the call returns
Finish(p, e) ==
    /\ pc[p] = "run"
    /\ LET r == Outcome(kind[p], TRUE, db, tx[p], e)
       IN  /\ db' = r.store
           /\ ev' = RetEv(kind[p], r.err, TRUE, tx[p] # base[p])
    /\ writer' = IF writer = p THEN 0 ELSE writer
    /\ pc' = [pc EXCEPT ![p] = "idle"]
    /\ kind' = [kind EXCEPT ![p] = "none"]
    /\ tx' = [tx EXCEPT ![p] = EmptyContent]
    /\ base' = [base EXCEPT ![p] = EmptyContent]
    /\ wrote' = [wrote EXCEPT ![p] = NoWrites]
    /\ UNCHANGED <<clientVars, batchVars, open, hasBucket>>

\* diskDB.Close: bolt waits for the running transactions, then closes
Close ==
    /\ open
    /\ \A p \in Procs : pc[p] = "idle"
    /\ open' = FALSE
    /\ ev' = NoEv
    /\ UNCHANGED <<clientVars, batchVars, hasBucket, db, writer, pc, kind, tx, base, wrote>>

Next ==
    \/ \E p \in Procs, K \in TxKinds : CallClosed(p, K)
    \/ \E p \in Procs, K \in TxKinds : CallNoBucket(p, K)
    \/ \E p \in Procs, K \in TxKinds : Begin(p, K)
    \/ \E p \in Procs, k \in Keys, v \in Values : Put(p, k, v)
    \/ \E p \in Procs, k \in Keys : Delete(p, k)
    \/ \E p \in Procs, e \in FRet : Finish(p, e)
    \/ Close

Spec == Init /\ [][Next]_vars

\* ------------------------------------------------------------------ the batch engine
\* The view a contract is given while a batch runs: the live transaction
InstrView == blive
\* What a reader outside the batch is given: a View transaction's snapshot
OutsideView == btrie

\* the store open with its bucket and no transaction running
StoreIdle ==
    /\ open = TRUE
    /\ hasBucket = TRUE
    /\ db = EmptyContent
    /\ writer = 0
    /\ pc = [p \in Procs |-> "idle"]
    /\ kind = [p \in Procs |-> "none"]
    /\ tx = [p \in Procs |-> EmptyContent]
    /\ base = [p \in Procs |-> EmptyContent]
    /\ wrote = [p \in Procs |-> NoWrites]
    /\ ev = NoEv

BInit ==
    /\ BatchInit
    /\ ClientIdle
    /\ StoreIdle

\* applyBatch / verifyBatch open their transaction on a batch of n instructions
BeginBatch(m, n) ==
    /\ bphase = "idle"
    /\ bphase' = "run"
    /\ bmode' = m
    /\ bn' = n
    /\ bpos' = 0
    /\ blive' = btrie
    /\ bbase' = btrie
    /\ bscs' = <<>>
    /\ berr' = NilErr
    /\ bres' = NoRes
    /\ bobs' = NoObs
    /\ UNCHANGED <<clientVars, storeVars, btrie, bcnt, scres, lres, pres>>

\* the next instruction of the batch is dispatched and its StateChanges applied
Dispatch(inst) ==
    /\ bphase = "run"
    /\ bpos < bn
    /\ bpos' = bpos + 1
    /\ LET r == RunInstr(InstrView, inst)
       IN  IF r.err = NilErr
           THEN /\ blive' = r.trie
                /\ bscs' = bscs \o r.scs
                /\ UNCHANGED <<bphase, berr>>
           ELSE /\ berr' = r.err
                /\ bphase' = "failed"
                /\ UNCHANGED <<blive, bscs>>
    /\ UNCHANGED <<clientVars, storeVars, btrie, bmode, bbase, bn, bres, bobs, bcnt, scres, lres, pres>>

\* the transaction function returns and the store commits or discards.
\* applyBatch keeps what the instructions before a failing one did: its
\* function returns nil and the failure is reported beside it.
EndBatch ==
    /\ bphase = "failed" \/ (bphase = "run" /\ bpos = bn)
    /\ LET out == IF bmode = "apply"
                  THEN DiskUpdate(BucketFound, btrie, blive, NilErr)
                  ELSE DiskUpdateDryRun(BucketFound, btrie, blive, berr)
           e == IF out.err # NilErr THEN out.err ELSE berr
       IN  /\ btrie' = out.store
           /\ bres' = BatchRes(bmode, e, bn, bpos, Len(bscs))
    /\ bphase' = "idle"
    /\ bmode' = "none"
    /\ bn' = 0
    /\ bpos' = 0
    /\ blive' = GenesisTrie
    /\ bbase' = GenesisTrie
    /\ bscs' = <<>>
    /\ berr' = NilErr
    /\ bobs' = NoObs
    /\ UNCHANGED <<clientVars, storeVars, bcnt, scres, lres, pres>>

\* a reader outside the batch calls GetValues in a View transaction
OutsideRead(i) ==
    /\ bobs' = [seen |-> TRUE, iid |-> i, inst |-> GetValues(OutsideView, i).inst]
    /\ UNCHANGED <<clientVars, storeVars, btrie, bphase, bmode, blive, bbase, bn, bpos, bscs, berr, bres,
                   bcnt, scres, lres, pres>>

BNext ==
    \/ \E m \in {"apply", "verify"}, n \in 1..MaxBatch : BeginBatch(m, n)
    \/ \E inst \in Instructions : Dispatch(inst)
    \/ EndBatch
    \/ \E i \in IIDs : OutsideRead(i)

SpecBatch == BInit /\ [][BNext]_vars

\* ------------------------------------------------------------------ one StateChange
\* the engine applies a StateChange that some contract emitted
ApplyStateChange(sc) ==
    /\ sc.action = "Update" /\ blive[sc.iid] # NoInst => blive[sc.iid].ver < MaxVersion
    /\ LET r == ApplySC(blive, sc)
       IN  /\ blive' = r.trie
           /\ scres' = [type |-> "sc", sc |-> sc, ok |-> r.ok, existed |-> blive[sc.iid] # NoInst,
                       before |-> blive,
                       recreates |-> /\ sc.action = "Create"
                                     /\ scres.type = "sc" /\ scres.ok
                                     /\ scres.sc.action = "Delete" /\ scres.sc.iid = sc.iid,
                       old |-> scres.before[sc.iid]]
           /\ bcnt' = IF ~r.ok \/ sc.action = "Update" THEN bcnt
                      ELSE [bcnt EXCEPT ![sc.iid] = IF sc.action = "Create" THEN @ + 1 ELSE @ - 1]
    /\ UNCHANGED <<clientVars, storeVars, btrie, bphase, bmode, bbase, bn, bpos, bscs, berr, bres, bobs, lres, pres>>

SCNext == \E sc \in StateChanges : ApplyStateChange(sc)

SpecSC == BInit /\ [][SCNext]_vars

\* ------------------------------------------------------------------ proofs
\* instances as the contracts leave them
WriteInst == [cid |-> ContractWriteID, val |-> Buf("write", ConfigID), ver |-> 0, darc |-> GenesisDarc]
ReadInst(w) == [cid |-> ContractReadID, val |-> Buf("read", w), ver |-> 0, darc |-> GenesisDarc]
\* the tries Spawns of Writes and Reads lead to from the genesis trie
SpawnedTries ==
    {T \in [IIDs -> {GenesisTrie[ConfigID], NoInst, WriteInst}
                     \cup {ReadInst(w) : w \in IIDs \ {ConfigID}}] :
        /\ T[ConfigID] = GenesisTrie[ConfigID]
        /\ \A i \in IIDs \ {ConfigID} :
             /\ T[i] # GenesisTrie[ConfigID]
             /\ T[i].cid = ContractReadID => T[T[i].val.ref] = WriteInst}
\* what a verifier may claim to be stored at a key
ClaimedValues == {NoInst, WriteInst, GenesisTrie[ConfigID]} \cup {ReadInst(w) : w \in IIDs \ {ConfigID}}

PInit ==
    /\ StoreIdle
    /\ ClientIdle
    /\ btrie \in SpawnedTries
    /\ blive = btrie
    /\ bphase = "idle"
    /\ bmode = "none"
    /\ bbase = GenesisTrie
    /\ bn = 0
    /\ bpos = 0
    /\ bscs = <<>>
    /\ berr = NilErr
    /\ bres = NoRes
    /\ bobs = NoObs
    /\ bcnt = [i \in IIDs |-> IF btrie[i] # NoInst THEN 1 ELSE 0]
    /\ scres = NoSCRes
    /\ lres = NoLRes
    /\ pres = NoPRes

\* a client is given Prove(k) by a store holding the committed instances and
\* verifies it for the claim "k holds v" against the root hash R it knows
VerifyProof(k, v, R) ==
    /\ pres' = [type |-> "verify", key |-> k, claimed |-> v, root |-> R,
                ok |-> Verify(R, k, v, Prove(OutsideView, k))]
    /\ UNCHANGED <<clientVars, storeVars, btrie, bphase, bmode, blive, bbase, bn, bpos, bscs, berr, bres,
                   bobs, bcnt, scres, lres>>

PNext ==
    \E k \in IIDs, v \in ClaimedValues, T \in SpawnedTries : VerifyProof(k, v, TrieRootHash(T))

SpecProof == PInit /\ [][PNext]_vars

\* ------------------------------------------------------------------ dispatch
\* The committing engine on a trie that may already hold a Write governed by
\* another policy than the chain configuration's
SeededTries ==
    {GenesisTrie, [GenesisTrie EXCEPT ![MaxInst] = [WriteInst EXCEPT !.darc = OtherDarc]]}

DInit ==
    /\ StoreIdle
    /\ ClientIdle
    /\ btrie \in SeededTries
    /\ blive = GenesisTrie
    /\ bphase = "idle"
    /\ bmode = "none"
    /\ bbase = GenesisTrie
    /\ bn = 0
    /\ bpos = 0
    /\ bscs = <<>>
    /\ berr = NilErr
    /\ bres = NoRes
    /\ bobs = NoObs
    /\ bcnt = [i \in IIDs |-> IF btrie[i] # NoInst THEN 1 ELSE 0]
    /\ scres = NoSCRes
    /\ lres = NoLRes
    /\ pres = NoPRes

DNext ==
    \/ \E n \in 1..MaxBatch : BeginBatch("apply", n)
    \/ \E inst \in Instructions : Dispatch(inst)
    \/ EndBatch

SpecDispatch == DInit /\ [][DNext]_vars

\* ------------------------------------------------------------------ LongTermSecret calls
\* the engine runs one instruction for the LongTermSecret contract on the
\* instances and applies what it emits
LtsCall(inst) ==
    /\ LET r == RunInstr(blive, inst)
       IN  /\ \A i \in IIDs : r.trie[i].ver <= MaxVersion
           /\ blive' = r.trie
           /\ lres' = [type |-> "lts", inst |-> inst, err |-> r.err, scs |-> r.scs,
                       before |-> blive[inst.iid]]
    /\ UNCHANGED <<clientVars, storeVars, btrie, bphase, bmode, bbase, bn, bpos, bscs, berr, bres, bobs,
                   bcnt, scres, pres>>

LNext == \E inst \in LtsInstructions : LtsCall(inst)

SpecLTS == BInit /\ [][LNext]_vars

\* ------------------------------------------------------------------ the ledger
\* Batches of instructions for the three contracts, committed or only verified
LedgerRosters == {Interval(1, 1), Interval(1, 2)}
LedgerInstructions ==
    Instructions
    \cup {LtsSpawnInst(i, LtsInfo("lts", r)) : i \in IIDs, r \in LedgerRosters}
    \cup {LtsInvokeInst(i, "reshare", LtsInfo("lts", r)) : i \in IIDs, r \in LedgerRosters}

GNext ==
    \/ \E m \in {"apply", "verify"}, n \in 1..MaxBatch : BeginBatch(m, n)
    \/ \E inst \in LedgerInstructions :
         Dispatch(inst) /\ \A i \in IIDs : blive'[i].ver <= MaxVersion
    \/ EndBatch

SpecLedger == BInit /\ [][GNext]_vars

\* ------------------------------------------------------------------ the chain-configuration client
MaxConfig == 1
MaxWait == 2

\* the bytes of a chain configuration; the genesis configuration is ConfigData(0)
ConfigData(c) == Buf("config", c)
Configs == {ConfigData(c) : c \in 0..MaxConfig}

\* The ledgers a client is pointed at: a ByzCoin chain at genesis, one that
\* holds a Write besides its configuration, and a service whose all-zero
\* instance is not a chain configuration.
ClientLedgers ==
    {GenesisTrie,
     [GenesisTrie EXCEPT ![MaxInst] = WriteInst],
     [GenesisTrie EXCEPT ![ConfigID] = WriteInst]}

\* Instance.fromByzcoin(bc, id): the instance the ledger proves to hold at id
InstanceFromByzcoin(T, id) ==
    IF GetValues(T, id).err # NilErr THEN [err |-> ExcNoInstance, instance |-> NoInstance]
    ELSE [err |-> NilErr, instance |-> [id |-> id, inst |-> T[id]]]
\* Instance.fromProof(p): the instance a proof of existence carries
InstanceFromProof(P) ==
    IF P.val = NoInst THEN [err |-> ExcNoInstance, instance |-> NoInstance]
    ELSE [err |-> NilErr, instance |-> [id |-> P.key, inst |-> P.val]]

\* new ChainConfigInstance(bc, instance)
ChainConfigInstanceNewUnchecked(instance) ==
    [err |-> NilErr,
     obj |-> [exists |-> TRUE, instance |-> instance, chainConfig |-> instance.inst.val]]
ChainConfigInstanceNew(instance) ==
    IF instance.inst.cid # ConfigContractID
    THEN [err |-> ExcWrongContract, obj |-> NoCci]
    ELSE [err |-> NilErr,
          obj |-> [exists |-> TRUE, instance |-> instance, chainConfig |-> instance.inst.val]]

\* a static fromByzcoin: load, then construct; an exception leaves no object
Construct(op, load) ==
    LET c == ChainConfigInstanceNew(load.instance)
        e == IF load.err # NilErr THEN load.err ELSE c.err
    IN  /\ cci' = IF e = NilErr THEN c.obj ELSE cci
        /\ cres' = [op |-> op, err |-> e, id |-> load.instance.id,
                    tag |-> load.instance.inst.cid, wait |-> 0, rounds |-> 0]

\* ChainConfigInstance.fromByzcoin(bc)
FromByzcoin ==
    /\ ccall.op = "none"
    /\ Construct("fromByzcoin", InstanceFromByzcoin(OutsideView, ConfigID))
    /\ UNCHANGED <<signVars, storeVars, batchVars, ccall>>

\* ChainConfigInstance.fromByzcoin(bc, p), p a proof the ledger gave for key k
FromByzcoinProof(k) ==
    /\ ccall.op = "none"
    /\ Construct("fromProof", InstanceFromProof(Prove(OutsideView, k)))
    /\ UNCHANGED <<signVars, storeVars, batchVars, ccall>>

\* ChainConfigInstance.update()
UpdateInstance ==
    /\ ccall.op = "none"
    /\ cci.exists
    /\ LET load == InstanceFromByzcoin(OutsideView, cci.instance.id)
       IN  /\ cci' = IF load.err # NilErr THEN cci
                     ELSE [cci EXCEPT !.instance = load.instance,
                                      !.chainConfig = load.instance.inst.val]
           /\ cres' = [op |-> "update", err |-> load.err, id |-> cci.instance.id,
                       tag |-> load.instance.inst.cid, wait |-> 0, rounds |-> 0]
    /\ UNCHANGED <<signVars, storeVars, batchVars, ccall>>

\* the configuration the object holds when evolveChainConfig returns
ConfigAfterSend(cur, newConfig) == cur
\* the configuration the object holds when evolveConfigAndWait returns:
\* chainConfig = newConfig is the statement after sendTransactionAndWait
ConfigAfterWaitAlways(cur, newConfig, e) == newConfig
ConfigAfterWait(cur, newConfig, e) == IF e = NilErr THEN newConfig ELSE cur

\* evolveChainConfig / evolveConfigAndWait is called: the instruction and the
\* transaction are built
CallEvolve(op, newConfig, wait) ==
    /\ ccall.op = "none"
    /\ cci.exists
    /\ ccall' = [ccall EXCEPT !.op = op, !.pc = "sign", !.newConfig = newConfig,
                              !.wait = wait, !.rounds = 0]
    /\ UNCHANGED <<signVars, storeVars, batchVars, cci, cres>>

\* the call returns e to its caller
ReturnEvolve(e) ==
    /\ cci' = [cci EXCEPT !.chainConfig =
                 IF ccall.op = "evolve" THEN ConfigAfterSend(@, ccall.newConfig)
                 ELSE ConfigAfterWait(@, ccall.newConfig, e)]
    /\ cres' = [op |-> ccall.op, err |-> e, id |-> cci.instance.id,
                tag |-> cci.instance.inst.cid, wait |-> ccall.wait, rounds |-> ccall.rounds]

\* ct.signWith(owners)
SignWith(ok) ==
    /\ ccall.op \in {"evolve", "evolveWait"}
    /\ ccall.pc = "sign"
    /\ IF ok
       THEN /\ ccall' = [ccall EXCEPT !.pc = "send"]
            /\ UNCHANGED <<cci, cres>>
       ELSE /\ ReturnEvolve(ExcCrypto)
            /\ ccall' = [NoCall EXCEPT !.pending = ccall.pending]
    /\ UNCHANGED <<signVars, storeVars, batchVars>>

\* bc.sendTransaction(ct) / the submission of bc.sendTransactionAndWait(ct, wait)
SendTransaction(ok) ==
    /\ ccall.op \in {"evolve", "evolveWait"}
    /\ ccall.pc = "send"
    /\ IF ~ok
       THEN /\ ReturnEvolve(ExcCommunication)
            /\ ccall' = [NoCall EXCEPT !.pending = ccall.pending]
       ELSE IF ccall.op = "evolve"
       THEN /\ ReturnEvolve(NilErr)
            /\ ccall' = [NoCall EXCEPT !.pending = ccall.pending \cup {ccall.newConfig}]
       ELSE /\ ccall' = [ccall EXCEPT !.pc = "wait",
                                      !.pending = ccall.pending \cup {ccall.newConfig}]
            /\ UNCHANGED <<cci, cres>>
    /\ UNCHANGED <<signVars, storeVars, batchVars>>

\* one more finalization round goes by while sendTransactionAndWait blocks
Round ==
    /\ ccall.op = "evolveWait"
    /\ ccall.pc = "wait"
    /\ ccall.rounds < ccall.wait
    /\ ccall' = [ccall EXCEPT !.rounds = @ + 1]
    /\ UNCHANGED <<signVars, storeVars, batchVars, cci, cres>>

\* sendTransactionAndWait returns: normally once the rounds asked for have
\* gone by, with an exception at any time
WaitReturn(ok) ==
    /\ ccall.op = "evolveWait"
    /\ ccall.pc = "wait"
    /\ ok => ccall.rounds = ccall.wait
    /\ ReturnEvolve(IF ok THEN NilErr ELSE ExcCommunication)
    /\ ccall' = [NoCall EXCEPT !.pending = ccall.pending]
    /\ UNCHANGED <<signVars, storeVars, batchVars>>

\* the ledger includes a submitted configuration: Invoke("update_config") gives
\* one Update of the configuration instance
Include(c) ==
    /\ c \in ccall.pending
    /\ cci.exists
    /\ btrie[cci.instance.id].ver < MaxVersion
    /\ LET i == cci.instance.id
           r == ApplySC(btrie, NewStateChange("Update", i, ConfigContractID, c, btrie[i].darc))
       IN  btrie' = r.trie
    /\ ccall' = [ccall EXCEPT !.pending = @ \ {c}]
    /\ UNCHANGED <<signVars, storeVars, bphase, bmode, blive, bbase, bn, bpos, bscs, berr, bres,
                   bobs, bcnt, scres, lres, pres, cci, cres>>

CInit ==
    /\ StoreIdle
    /\ ClientIdle
    /\ btrie \in ClientLedgers
    /\ blive = GenesisTrie
    /\ bphase = "idle"
    /\ bmode = "none"
    /\ bbase = GenesisTrie
    /\ bn = 0
    /\ bpos = 0
    /\ bscs = <<>>
    /\ berr = NilErr
    /\ bres = NoRes
    /\ bobs = NoObs
    /\ bcnt = [i \in IIDs |-> IF btrie[i] # NoInst THEN 1 ELSE 0]
    /\ scres = NoSCRes
    /\ lres = NoLRes
    /\ pres = NoPRes

CNext ==
    \/ FromByzcoin
    \/ \E k \in IIDs : FromByzcoinProof(k)
    \/ UpdateInstance
    \/ \E op \in {"evolve", "evolveWait"}, c \in Configs, w \in 0..MaxWait : CallEvolve(op, c, w)
    \/ \E ok \in BOOLEAN : SignWith(ok)
    \/ \E ok \in BOOLEAN : SendTransaction(ok)
    \/ Round
    \/ \E ok \in BOOLEAN : WaitReturn(ok)
    \/ \E c \in Configs : Include(c)

SpecConfig == CInit /\ [][CNext]_vars

\* ------------------------------------------------------------------ the cothority checker
ErrRequest == [id |-> "requestErr", msg |-> "signature request failed"]
ErrVerify == [id |-> "verifyErr", msg |-> "signature does not verify"]
ErrTimeout == [id |-> "timeoutErr", msg |-> "timeout on signing request"]
ErrInvalidSignature == [id |-> "invalidSignature", msg |-> "Invalid signature"]
ErrTestsFailed == [id |-> "testsFailed", msg |-> "At least one of the tests failed"]

\* make(chan ..., 1)
ChanCap == 1
\* a send on a channel goes through when its buffer has room
CanSendRendezvous(k, ch) == ss.pc = "select" /\ ss.call = k /\ ch = <<>>
CanSend(k, ch) == Len(ch) < ChanCap

\* what client.SignatureRequest returns: an error, or a response whose
\* signature verifies or not and whose hash is the message's or not
RequestOutcomes ==
    {[err |-> ErrRequest, sig |-> FALSE, hash |-> FALSE],
     [err |-> NilErr, sig |-> TRUE, hash |-> TRUE],
     [err |-> NilErr, sig |-> FALSE, hash |-> TRUE],
     [err |-> NilErr, sig |-> TRUE, hash |-> FALSE]}

\* response.Signature.Verify(suite, msg, publics)
SignatureVerify(m) == IF m.sig THEN NilErr ELSE ErrVerify

\* time.After(RequestTimeOut) delivers
TimerNever == FALSE
TimerFires == TRUE

\* the cases of signStatement's select and what each returns
SelectCases == {"echan", "pchan", "timer"}
SelectReturn(case, m) ==
    CASE case = "echan" -> [kind |-> "error", err |-> m.err, sig |-> FALSE, hash |-> FALSE]
      [] case = "pchan" ->
           IF SignatureVerify(m) # NilErr
           THEN [kind |-> "error", err |-> SignatureVerify(m), sig |-> FALSE, hash |-> FALSE]
           ELSE [kind |-> "response", err |-> NilErr, sig |-> m.sig, hash |-> m.hash]
      [] case = "timer" -> [kind |-> "error", err |-> ErrTimeout, sig |-> FALSE, hash |-> FALSE]

\* verifySignatureHash(msg, sig, ro)
VerifySignatureHash(r) == r.hash /\ r.sig
\* checkRoster, given what signStatement returned
CheckRoster(r) ==
    IF r.err # NilErr THEN r.err
    ELSE IF ~VerifySignatureHash(r) THEN ErrInvalidSignature
    ELSE NilErr

\* the rosters of the pairwise checks: each pair of working, then swapped
PairList(w) ==
    LET n == Len(w)
        P == {q \in (1..n) \X (1..n) : q[1] < q[2]}
        rank(q) == Cardinality({o \in P : o[1] < q[1] \/ (o[1] = q[1] /\ o[2] < q[2])})
    IN  [x \in 1..(2 * Cardinality(P)) |->
           LET q == CHOOSE o \in P : rank(o) = (x - 1) \div 2
           IN  IF x % 2 = 1 THEN <<w[q[1]], w[q[2]]>> ELSE <<w[q[2]], w[q[1]]>>]

\* totalSuccess = checkRoster(...) == nil && totalSuccess
AndSuccess(ok, totalSuccess) == ok /\ totalSuccess

\* checkCothority returns
Finished(c) ==
    [c EXCEPT !.pc = "done",
              !.ret = IF ~c.totalSuccess THEN ErrTestsFailed ELSE NilErr]
\* checkCothority goes on after the pairwise checks begin or are left out
ToPairs(c) ==
    IF c.detail /\ PairList(c.working) # <<>>
    THEN [c EXCEPT !.pc = "pairs", !.pi = 1]
    ELSE Finished(c)
\* checkCothority takes the result of the check it was waiting for
Advance(c, ok) ==
    CASE c.pc = "indiv" ->
           LET d == [c EXCEPT !.working = IF ok THEN Append(@, c.e) ELSE @,
                              !.totalSuccess = IF ok THEN @ ELSE FALSE,
                              !.anyFailed = @ \/ ~ok]
           IN  IF c.e < NumServers THEN [d EXCEPT !.e = @ + 1]
               ELSE IF Len(d.working) > 1 THEN [d EXCEPT !.pc = "big", !.j = 0]
               ELSE Finished(d)
      [] c.pc = "big" ->
           LET d == [c EXCEPT !.totalSuccess = AndSuccess(ok, @), !.anyFailed = @ \/ ~ok]
           IN  IF c.j + 1 <= IntSqrt(Len(c.working)) THEN [d EXCEPT !.j = @ + 1]
               ELSE ToPairs(d)
      [] c.pc = "pairs" ->
           LET d == [c EXCEPT !.totalSuccess = AndSuccess(ok, @), !.anyFailed = @ \/ ~ok]
           IN  IF c.pi < Len(PairList(c.working)) THEN [d EXCEPT !.pi = @ + 1]
               ELSE Finished(d)

\* checkCothority(g, detail) is called on a group of NumServers servers
CheckCothority(detail) ==
    /\ ck.pc = "idle"
    /\ ck' = [NoCk EXCEPT !.pc = "indiv", !.detail = detail, !.e = 1]
    /\ UNCHANGED <<storeVars, batchVars, configVars, ss, gor, pchan, echan, sret>>

\* checkRoster calls signStatement: the channels are made, the goroutine is
\* started and the caller reaches its select
SignStatement ==
    /\ ck.pc \in {"indiv", "big", "pairs"}
    /\ ss.pc = "none"
    /\ ss' = [pc |-> "select", call |-> ss.call + 1]
    /\ gor' = [gor EXCEPT ![ss.call + 1] = [NoGor EXCEPT !.pc = "request"]]
    /\ UNCHANGED <<storeVars, batchVars, configVars, ck, pchan, echan, sret>>

\* client.SignatureRequest returns in the goroutine of call k
RequestReturns(k, out) ==
    /\ gor[k].pc = "request"
    /\ gor' = [gor EXCEPT ![k] = [pc |-> "send", err |-> out.err, sig |-> out.sig,
                                  hash |-> out.hash]]
    /\ UNCHANGED <<storeVars, batchVars, configVars, ck, ss, pchan, echan, sret>>

\* the goroutine of call k sends: echan <- err, or pchan <- response
GoSend(k) ==
    /\ gor[k].pc = "send"
    /\ IF gor[k].err # NilErr
       THEN /\ CanSend(k, echan[k])
            /\ echan' = [echan EXCEPT ![k] = Append(@, gor[k])]
            /\ UNCHANGED pchan
       ELSE /\ CanSend(k, pchan[k])
            /\ pchan' = [pchan EXCEPT ![k] = Append(@, gor[k])]
            /\ UNCHANGED echan
    /\ gor' = [gor EXCEPT ![k].pc = "done"]
    /\ UNCHANGED <<storeVars, batchVars, configVars, ck, ss, sret>>

\* the caller's select takes a case that is ready; signStatement returns,
\* checkRoster verifies and returns, and checkCothority goes on
Select(case) ==
    /\ ss.pc = "select"
    /\ LET k == ss.call
           ch == IF case = "echan" THEN echan[k] ELSE pchan[k]
           m == IF case = "timer" THEN NoGor ELSE Head(ch)
           r == SelectReturn(case, m)
       IN  /\ case = "timer" => TimerFires
           /\ case # "timer" => ch # <<>>
           /\ echan' = IF case = "echan" THEN [echan EXCEPT ![k] = Tail(@)] ELSE echan
           /\ pchan' = IF case = "pchan" THEN [pchan EXCEPT ![k] = Tail(@)] ELSE pchan
           /\ sret' = [call |-> k, kind |-> r.kind, err |-> r.err, sig |-> r.sig, hash |-> r.hash]
           /\ ck' = Advance(ck, CheckRoster(r) = NilErr)
    /\ ss' = [ss EXCEPT !.pc = "none"]
    /\ UNCHANGED <<storeVars, batchVars, configVars, gor>>

SNext ==
    \/ \E detail \in BOOLEAN : CheckCothority(detail)
    \/ SignStatement
    \/ \E k \in Calls, out \in RequestOutcomes : RequestReturns(k, out)
    \/ \E k \in Calls : GoSend(k)
    \/ \E case \in SelectCases : Select(case)

SpecSign == BInit /\ [][SNext]_vars

\* the caller runs on, its timer delivers, and a goroutine that can send is
\* scheduled; nothing makes a signature request return
SpecSignFair ==
    /\ SpecSign
    /\ WF_vars(SignStatement)
    /\ WF_vars(\E case \in SelectCases : Select(case))
    /\ \A k \in Calls : WF_vars(GoSend(k))

\* ------------------------------------------------------------------ store claims
RunningWriters == {p \in Procs : pc[p] = "run" /\ kind[p] \in WriteKinds}
RunningViews == {p \in Procs : pc[p] = "run" /\ kind[p] = "View"}

\* C1: Update(f) makes f's mutations durable iff f returns no error; when f
\* returns an error, Update returns that error and the store content after the
\* call is the content S from before it.
C1_UpdateCommitsIffNil ==
    [][\A p \in Procs, e \in FRet :
        (Finish(p, e) /\ kind[p] = "Update")
        => /\ ev'.err = e
           /\ e = NilErr => db' = Overlay(base[p], wrote[p])
           /\ e # NilErr => db' = base[p]]_vars

\* an Update whose f changed the bucket and then failed has returned
C1_Witness ==
    /\ ev.type = "ret" /\ ev.kind = "Update"
    /\ ev.err \in FErrs /\ ev.dirty

\* C2: the store content and the root hash right after UpdateDryRun(f) are those
\* from before the call, whatever f returns, while inside the call every read
\* of f returns what f itself wrote last.
C2_DryRunPurity ==
    [][/\ \A p \in Procs, e \in FRet :
            (Finish(p, e) /\ kind[p] = "UpdateDryRun")
            => /\ db' = base[p]
               /\ RootHash(db') = RootHash(base[p])
       /\ \A p \in Procs, k \in Keys :
            (pc[p] = "run" /\ kind[p] = "UpdateDryRun")
            => BucketGet(p, k) = Overlay(base[p], wrote[p])[k]]_vars

\* a dry-run whose f changed the bucket and succeeded has returned nil
C2_Witness ==
    /\ ev.type = "ret" /\ ev.kind = "UpdateDryRun"
    /\ ev.err = NilErr /\ ev.dirty

\* C3: with the bucket present UpdateDryRun(f) returns nil exactly when f returns
\* nil and otherwise f's own error object; the sentinel is never returned, also
\* when f's error carries the sentinel's text.
C3_DryRunReturnsFErr ==
    [][/\ \A p \in Procs, e \in FRet :
            (Finish(p, e) /\ kind[p] = "UpdateDryRun") => ev'.err = e
       /\ ev'.err # DryRunErr]_vars

\* f returned an error with the sentinel's text and the caller got that error
C3_Witness ==
    /\ ev.type = "ret" /\ ev.kind = "UpdateDryRun" /\ ev.invoked
    /\ ev.err # DryRunErr /\ ev.err.msg = DryRunErr.msg

\* C4: without the bucket no function is ever invoked, every call fails (on an
\* open database with the bucket error, also for UpdateDryRun) and the
\* store stays as it was.
C4_NoBucketFails ==
    ~hasBucket =>
        /\ \A p \in Procs : pc[p] = "idle"
        /\ db = EmptyContent
        /\ ev.type = "ret" =>
             /\ ~ev.invoked
             /\ ev.err # NilErr
             /\ open => ev.err = BucketErr

\* a dry-run on a store without the bucket has reported the bucket error
C4_Witness ==
    /\ ~hasBucket
    /\ ev.type = "ret" /\ ev.kind = "UpdateDryRun" /\ ev.err = BucketErr

\* C5: at most one Update / UpdateDryRun transaction is active; the active one
\* started from the committed content, and when it ends the committed content
\* is all of its mutations (a successful Update) or none of them.
C5_SingleWriter ==
    [][/\ Cardinality(RunningWriters') <= 1
       /\ \A p \in RunningWriters' : base'[p] = db' /\ writer' = p
       /\ \A p \in Procs, e \in FRet :
            (Finish(p, e) /\ kind[p] \in WriteKinds)
            => db' = IF kind[p] = "Update" /\ e = NilErr
                     THEN Overlay(base[p], wrote[p]) ELSE base[p]]_vars

\* a write transaction runs on content an earlier Update committed, while
\* another process has nothing to do but wait for the writer lock
C5_Witness ==
    \E p \in RunningWriters :
        /\ base[p] # EmptyContent
        /\ wrote[p] # NoWrites
        /\ \E q \in Procs \ {p} : pc[q] = "idle"

\* C6: every read inside a View returns the value of the content committed when
\* the View began: not a running writer's mutations, not a later commit.
C6_SnapshotReads ==
    \A p \in RunningViews, k \in Keys : BucketGet(p, k) = base[p][k]

\* a View is open over content that has since been replaced by a commit,
\* while a writer holds uncommitted mutations
C6_Witness ==
    \E r \in RunningViews, w \in RunningWriters :
        /\ db # base[r]
        /\ tx[w] # db

\* C7: Put and Delete on the bucket of a View are rejected and change nothing,
\* and no step of a View changes the committed content.
C7_ViewReadOnly ==
    [][\A p \in Procs :
        kind[p] = "View" =>
            /\ \A k \in Keys, v \in Values :
                 Put(p, k, v) => ev'.err = TxNotWritableErr /\ tx' = tx /\ db' = db
            /\ \A k \in Keys :
                 Delete(p, k) => ev'.err = TxNotWritableErr /\ tx' = tx /\ db' = db
            /\ \A e \in FRet :
                 Finish(p, e) => db' = db /\ ev'.err = e]_vars

\* a Put inside a View has been rejected
C7_Witness ==
    /\ ev.type = "put" /\ ev.kind = "View" /\ ev.err = TxNotWritableErr
    /\ db # EmptyContent

\* ------------------------------------------------------------------ engine claims
Replayed == ApplyAll(bbase, bscs).trie

\* C8: when an instruction of a batch run by applyBatch fails, the failure is
\* reported, the StateChanges of the instructions before it are committed, none
\* of the failing instruction is applied and no later instruction is dispatched.
C8_BatchPrefixCommitted ==
    [][/\ (EndBatch /\ bmode = "apply")
            => /\ btrie' = Replayed
               /\ OutsideView' = Replayed
               /\ bres'.err = berr
               /\ bres'.nsc = Len(bscs)
       /\ \A inst \in Instructions :
            Dispatch(inst)
            => /\ bphase = "run" /\ berr = NilErr
               /\ berr' # NilErr => blive' = blive /\ bscs' = bscs /\ bphase' = "failed"]_vars

\* applyBatch on three instructions has failed at the second: the instance the
\* first created is committed, the third was never dispatched
C8_Witness ==
    /\ bres.type = "batch" /\ bres.mode = "apply"
    /\ bres.err # NilErr
    /\ bres.n = 3 /\ bres.pos = 2 /\ bres.nsc = 1
    /\ Cardinality({i \in IIDs : btrie[i] # NoInst}) = 2

C9_ViewInv ==
    bphase # "idle" =>
        /\ InstrView = Replayed
        /\ Len(bscs) <= bpos /\ bpos <= bn
        /\ bphase = "run" => Len(bscs) = bpos
        /\ OutsideView = bbase
        /\ bobs.seen => bobs.inst = bbase[bobs.iid]

\* C9: the view given to the i-th instruction of a batch is the content the
\* batch began with changed by exactly the StateChanges of the instructions
\* before it, so a Read spawned on a Write of the same batch is accepted, and a
\* reader outside the batch sees none of it while the batch runs.
C9_ViewReflectsPrefix ==
    [][/\ C9_ViewInv /\ C9_ViewInv'
       /\ \A inst \in Instructions :
            (/\ Dispatch(inst)
             /\ inst.type = "Spawn" /\ inst.cid = ContractReadID
             /\ inst.arg.tag = "read"
             /\ Replayed[inst.iid] # NoInst)
            => (berr' = NilErr <=> /\ Replayed[inst.arg.ref].cid = ContractWriteID
                                   /\ Replayed[DeriveID(inst)] = NoInst)]_vars

\* the second instruction spawned a Read on the Write the first one created,
\* and a reader outside still finds no instance there
C9_Witness ==
    /\ bphase = "run"
    /\ Len(bscs) = 2
    /\ bscs[1].cid = ContractWriteID /\ bbase[bscs[1].iid] = NoInst
    /\ bscs[2].cid = ContractReadID /\ bscs[2].val.ref = bscs[1].iid
    /\ bobs.seen /\ bobs.iid = bscs[1].iid /\ bobs.inst = NoInst

C10_CountInv ==
    \A i \in IIDs : bcnt[i] \in {0, 1} /\ (bcnt[i] = 1 <=> blive[i] # NoInst)

\* C10: a Create of a stored InstanceID fails, an Update or Delete of one that
\* is not stored fails, a failed StateChange changes nothing, and every
\* InstanceID holds at most one instance.
C10_StateChangeExistence ==
    [][/\ \A sc \in StateChanges :
            ApplyStateChange(sc)
            => /\ (sc.action = "Create" /\ blive[sc.iid] # NoInst) => ~scres'.ok
               /\ (sc.action \in {"Update", "Delete"} /\ blive[sc.iid] = NoInst) => ~scres'.ok
               /\ ~scres'.ok => blive' = blive
       /\ C10_CountInv']_vars

\* a Create of an InstanceID that was stored has failed
C10_Witness ==
    /\ scres.type = "sc" /\ scres.sc.action = "Create"
    /\ scres.existed /\ ~scres.ok
    /\ scres.sc.iid # ConfigID

\* the instructions that succeed on the instances T
Applicable(T) == {inst \in Instructions : RunInstr(T, inst).err = NilErr}
\* the instances an instruction reads: its target and, for a Read, the Write
ReadSet(inst) ==
    {inst.iid} \cup (IF inst.type = "Spawn" /\ inst.cid = ContractReadID /\ inst.arg.tag = "read"
                     THEN {inst.arg.ref} ELSE {})
\* two instructions that neither write the same instance nor read what the
\* other writes
Independent(i1, i2) ==
    /\ DeriveID(i1) # DeriveID(i2)
    /\ DeriveID(i1) \notin ReadSet(i2)
    /\ DeriveID(i2) \notin ReadSet(i1)

\* C12: two instructions of a batch that each succeed on the batch's view and
\* are independent leave the same instances, hence the same root hash, in
\* either order, so replicas that permute them agree on the root hash.
C12_PermutedSameRoot ==
    bphase = "run" =>
        \A i1 \in Applicable(InstrView) :
            \A i2 \in {i \in Applicable(InstrView) : Independent(i1, i)} :
                LET a == RunBatch(InstrView, <<i1, i2>>)
                    b == RunBatch(InstrView, <<i2, i1>>)
                IN  /\ a.err = NilErr /\ b.err = NilErr
                    /\ a.trie = b.trie
                    /\ TrieRootHash(a.trie) = TrieRootHash(b.trie)

\* a batch has run two independent Spawns, and the instances it holds are
\* those of the Spawns in the other order
C12_Witness ==
    /\ bphase = "run" /\ bpos = 2 /\ Len(bscs) = 2
    /\ bscs[1].iid # bscs[2].iid
    /\ bscs[1].cid = ContractWriteID /\ bscs[2].cid = ContractWriteID
    /\ blive = ApplyAll(ApplyAll(bbase, <<bscs[2]>>).trie, <<bscs[1]>>).trie

\* the instances T had X never been created
NeverExisted(T, X) == [T EXCEPT ![X] = NoInst]

\* C11: a Create of InstanceID X right after a successful Delete of X succeeds,
\* and the instances and the root hash it leaves are those the same Create
\* leaves when applied where X never existed.
C11_DeleteThenCreate ==
    [][\A sc \in StateChanges :
        (ApplyStateChange(sc) /\ scres'.recreates)
        => LET fresh == ApplySC(NeverExisted(scres.before, sc.iid), sc)
           IN  /\ scres'.ok
               /\ fresh.ok
               /\ blive' = fresh.trie
               /\ TrieRootHash(blive') = TrieRootHash(fresh.trie)]_vars

\* an instance that had been updated was deleted and its InstanceID created
\* again, under another contract ID
C11_Witness ==
    /\ scres.type = "sc" /\ scres.ok /\ scres.recreates
    /\ scres.old.ver > 0 /\ scres.old.cid # scres.sc.cid
    /\ blive[scres.sc.iid].ver = 0

\* C13: a Proof produced by Prove(k) verifies for a claimed value (or absence)
\* and a root hash exactly when the root hash is the trie's and the claimed
\* value is what the trie holds at k.
C13_ProofSoundness ==
    pres.type = "verify" =>
        (pres.ok <=> /\ pres.root = TrieRootHash(OutsideView)
                     /\ pres.claimed = OutsideView[pres.key])

\* the absence of a key was verified against the root of a trie holding
\* other instances
C13_Witness ==
    /\ pres.type = "verify" /\ pres.ok
    /\ pres.claimed = NoInst /\ pres.key # ConfigID
    /\ \E i \in IIDs \ {ConfigID} : OutsideView[i] # NoInst

\* the errors of the two cases of contractWr.Spawn
WriteCaseErrs == {ErrNeedWrite, ErrUnmarshalWrite, ErrProof}
ReadCaseErrs == {ErrNeedRead, ErrUnmarshalRead, ErrWriteIDNotCorrect, ErrNotAWrite}

\* C14: a Spawn on a stored target runs the case the Spawn's contract ID names
\* and the instance it creates has that contract ID and the target's PolicyID;
\* an Invoke or Delete is answered by the contract ID stored at its target; a
\* Spawn naming the Read contract and a stored Write succeeds.
C14_DispatchResolution ==
    [][\A inst \in Instructions :
        Dispatch(inst) =>
          LET tgt == InstrView[inst.iid]
              new == blive'[DeriveID(inst)]
          IN  /\ (inst.type = "Spawn" /\ tgt # NoInst)
                    => /\ inst.cid = ContractWriteID => berr' \notin ReadCaseErrs
                       /\ inst.cid = ContractReadID => berr' \notin WriteCaseErrs
                       /\ berr' = NilErr
                            => /\ InstrView[DeriveID(inst)] = NoInst
                               /\ new.cid = inst.cid
                               /\ new.darc = tgt.darc
                               /\ bscs' = Append(bscs, NewStateChange("Create", DeriveID(inst),
                                                                       inst.cid, inst.arg, tgt.darc))
              /\ (inst.type \in {"Invoke", "Delete"} /\ tgt # NoInst)
                    => berr' = CASE tgt.cid = ContractWriteID -> ErrUnsupported
                                 [] tgt.cid = ContractReadID -> ErrReadNeverInstantiated
                                 [] OTHER -> ErrUnknownContract
              /\ (/\ inst.type = "Spawn" /\ inst.cid = ContractReadID
                  /\ tgt # NoInst /\ inst.arg.tag = "read"
                  /\ InstrView[inst.arg.ref].cid = ContractWriteID
                  /\ InstrView[DeriveID(inst)] = NoInst)
                    => berr' = NilErr]_vars

\* a Read was spawned on a target governed by another policy than the chain
\* configuration's, and carries that policy
C14_Witness ==
    /\ bphase = "run"
    /\ \E i \in IIDs :
         /\ blive[i].cid = ContractReadID /\ bbase[i] = NoInst
         /\ blive[i].darc = OtherDarc
         /\ blive[ConfigID].darc = GenesisDarc

\* C15: an Invoke or Delete whose target is a Write or a Read fails with
\* UnsupportedOperation and applies no StateChange, and an instance that is a
\* Write or a Read is never changed or removed, in the running batch or in
\* the committed trie.
C15_FailClosed ==
    [][/\ \A inst \in Instructions :
            (/\ Dispatch(inst)
             /\ inst.type \in {"Invoke", "Delete"}
             /\ InstrView[inst.iid].cid \in {ContractWriteID, ContractReadID})
            => /\ Condition(berr') = "UnsupportedOperation"
               /\ bscs' = bscs
               /\ blive' = blive
       /\ \A i \in IIDs :
            /\ (bphase # "idle" /\ bphase' # "idle"
                /\ blive[i].cid \in {ContractWriteID, ContractReadID})
                 => blive'[i] = blive[i]
            /\ btrie[i].cid \in {ContractWriteID, ContractReadID} => btrie'[i] = btrie[i]]_vars

\* a batch created a Write and a Read, then an instruction on the Read failed
\* closed
C15_Witness ==
    /\ bphase = "failed" /\ berr = ErrReadNeverInstantiated
    /\ Len(bscs) = 2
    /\ \E i \in IIDs : blive[i].cid = ContractReadID /\ bbase[i] = NoInst

\* what spawning a Write with this instruction on this view has to report
WriteSpawnVerdict(T, inst) ==
    IF T[inst.iid] = NoInst THEN "NotFound"
    ELSE IF inst.arg.tag = "missing" THEN "MissingArgument"
    ELSE IF inst.arg.tag = "garbled" THEN "DecodeError"
    ELSE IF inst.arg.tag = "badproof" THEN "InvalidProof"
    ELSE "none"

\* C16: a Spawn naming the Write contract returns NotFound, MissingArgument,
\* DecodeError or InvalidProof, the first that applies, and then no
\* StateChange; otherwise exactly one Create of the derived InstanceID with
\* contract ID calypsoWrite, the payload as value and the target's PolicyID.
C16_SpawnWrite ==
    [][\A inst \in Instructions :
        (Dispatch(inst) /\ inst.type = "Spawn" /\ inst.cid = ContractWriteID)
        => LET r == ContractWrSpawn(InstrView, inst)
               verdict == WriteSpawnVerdict(InstrView, inst)
               tgt == InstrView[inst.iid]
           IN  /\ Condition(r.err) = verdict
               /\ verdict # "none"
                    => /\ r.scs = <<>>
                       /\ berr' = r.err /\ bscs' = bscs /\ blive' = blive
               /\ verdict = "none"
                    => /\ r.scs = <<NewStateChange("Create", DeriveID(inst), ContractWriteID,
                                                    inst.arg, tgt.darc)>>
                       /\ InstrView[DeriveID(inst)] = NoInst
                            => /\ berr' = NilErr
                               /\ bscs' = bscs \o r.scs
                               /\ blive' = [blive EXCEPT ![DeriveID(inst)] =
                                              [cid |-> ContractWriteID, val |-> inst.arg,
                                               ver |-> 0, darc |-> tgt.darc]]]_vars

\* a Write was spawned under the policy of its target, then a Spawn whose
\* proof does not check was refused
C16_Witness ==
    /\ bphase = "failed" /\ berr = ErrProof
    /\ Len(bscs) = 1
    /\ bscs[1].action = "Create" /\ bscs[1].cid = ContractWriteID
    /\ bscs[1].darc = OtherDarc /\ blive[bscs[1].iid].darc = OtherDarc

\* C17: a Spawn naming the Read contract, on a stored target and with a
\* payload that decodes, returns InvalidReference and no StateChange when the
\* referenced InstanceID is not stored or is stored under another contract ID
\* than calypsoWrite, and otherwise exactly one Create of a Read instance.
C17_ReadLinkage ==
    [][\A inst \in Instructions :
        (/\ Dispatch(inst)
         /\ inst.type = "Spawn" /\ inst.cid = ContractReadID
         /\ InstrView[inst.iid] # NoInst
         /\ inst.arg.tag = "read")
        => LET r == ContractWrSpawn(InstrView, inst)
               ref == InstrView[inst.arg.ref]
           IN  IF ref = NoInst \/ ref.cid # ContractWriteID
               THEN /\ Condition(r.err) = "InvalidReference"
                    /\ r.scs = <<>>
                    /\ berr' = r.err /\ bscs' = bscs /\ blive' = blive
               ELSE /\ r.err = NilErr
                    /\ r.scs = <<NewStateChange("Create", DeriveID(inst), ContractReadID,
                                                 inst.arg, InstrView[inst.iid].darc)>>
                    /\ InstrView[DeriveID(inst)] = NoInst
                         => /\ berr' = NilErr
                            /\ bscs' = bscs \o r.scs
                            /\ blive'[DeriveID(inst)].cid = ContractReadID]_vars

\* a Read was spawned on a stored Write, then a Spawn of a Read that
\* references a stored instance which is not a Write was refused
C17_Witness ==
    /\ bphase = "failed" /\ berr = ErrNotAWrite
    /\ Len(bscs) >= 1
    /\ bscs[Len(bscs)].cid = ContractReadID
    /\ blive[bscs[Len(bscs)].val.ref].cid = ContractWriteID

\* ------------------------------------------------------------------ LongTermSecret claims
\* the last call was a reshare that got as far as comparing the rosters
ReshareCompared ==
    /\ lres.type = "lts"
    /\ lres.inst.type = "Invoke" /\ lres.inst.cmd = "reshare"
    /\ lres.before.cid = ContractLongTermSecretID
    /\ lres.inst.arg.tag = "lts"
CurRoster == lres.before.val.ros
NewRoster == lres.inst.arg.ros
\* the number of distinct identities that are in both rosters
DistinctOverlap(r1, r2) ==
    Cardinality({r1[i] : i \in 1..Len(r1)} \cap {r2[i] : i \in 1..Len(r2)})

\* C18 as stated: a reshare fails with InsufficientOverlap exactly when the
\* overlap is below n - floor((n-1)/3), floor being the mathematical floor,
\* for every size n >= 0 of the stored roster.
C18_FloorThreshold ==
    ReshareCompared =>
        LET n == Len(CurRoster)
        IN  lres.err = ErrOverlap
              <=> IntersectRosters(CurRoster, NewRoster) < n - ((n - 1) \div 3)

\* C18 amended: a reshare fails with InsufficientOverlap exactly when the
\* overlap the contract counts is below n - (n-1)/3 with the division
\* truncating toward zero: n - floor((n-1)/3) for n >= 1, and 0 for an empty
\* stored roster, whose reshare never fails for lack of overlap.
C18_TruncThreshold ==
    ReshareCompared =>
        LET n == Len(CurRoster)
            thr == IF n = 0 THEN 0 ELSE n - ((n - 1) \div 3)
        IN  /\ lres.err = ErrOverlap <=> IntersectRosters(CurRoster, NewRoster) < thr
            /\ lres.err \in {ErrOverlap, NilErr}
            /\ lres.err = ErrOverlap => lres.scs = <<>>

\* a stored roster of 7 and a new roster sharing 4 of them: refused
C18_Witness ==
    /\ ReshareCompared
    /\ Len(CurRoster) = 7
    /\ IntersectRosters(CurRoster, NewRoster) = 4
    /\ DistinctOverlap(CurRoster, NewRoster) = 4
    /\ lres.err = ErrOverlap

\* C19: the overlap a reshare uses is the number of distinct identities in
\* both rosters, whichever roster is taken first, so a reshare succeeds only
\* when at least the threshold of distinct members of the stored roster are in
\* the new one.
C19_DistinctOverlap ==
    ReshareCompared =>
        /\ IntersectRosters(CurRoster, NewRoster) = DistinctOverlap(CurRoster, NewRoster)
        /\ IntersectRosters(CurRoster, NewRoster) = IntersectRosters(NewRoster, CurRoster)
        /\ lres.err = NilErr => DistinctOverlap(CurRoster, NewRoster) >= Threshold(Len(CurRoster))

\* C20: a reshare that succeeds emits exactly one Update of the invoked
\* instance with contract ID longTermSecret, the instance's PolicyID and the
\* new payload as value; any other command on a LongTermSecret instance fails
\* with UnsupportedCommand, whatever its arguments, and emits nothing.
C20_ReshareUpdate ==
    [][LET inst == lres'.inst IN
        (/\ lres'.type = "lts"
         /\ LtsCall(inst)
         /\ inst.type = "Invoke"
         /\ blive[inst.iid].cid = ContractLongTermSecretID)
        => /\ inst.cmd # "reshare"
                => /\ Condition(lres'.err) = "UnsupportedCommand"
                   /\ lres'.scs = <<>>
                   /\ blive' = blive
           /\ (inst.cmd = "reshare" /\ lres'.err = NilErr)
                => /\ lres'.scs = <<NewStateChange("Update", inst.iid, ContractLongTermSecretID,
                                                   inst.arg, blive[inst.iid].darc)>>
                   /\ blive' = [blive EXCEPT ![inst.iid] =
                                  [cid |-> ContractLongTermSecretID, val |-> inst.arg,
                                   ver |-> blive[inst.iid].ver + 1,
                                   darc |-> blive[inst.iid].darc]]
           /\ inst.cmd = "reshare"
                => lres'.err \in {NilErr, ErrNeedLtsInfo, ErrUnmarshalLtsInfo, ErrOverlap}
           /\ lres'.err # NilErr => lres'.scs = <<>> /\ blive' = blive]_vars

\* a reshare replaced the stored roster by another one
C20_Witness ==
    /\ ReshareCompared /\ lres.err = NilErr
    /\ NewRoster # CurRoster
    /\ blive[lres.inst.iid].val.ros = NewRoster
    /\ blive[lres.inst.iid].ver = lres.before.ver + 1

\* ------------------------------------------------------------------ client claims
\* C21: the chain configuration is loaded from the instance at the all-zero
\* InstanceID; constructing a ChainConfigInstance, by identifier or by proof,
\* from an instance whose contract tag is not "config" is rejected with
\* NotFound and gives no object; so every ChainConfigInstance that exists wraps
\* an instance whose contract tag was "config" when it was loaded.
C21_ConfigTagChecked ==
    /\ [](cci.exists => cci.instance.inst.cid = ConfigContractID)
    /\ [][/\ FromByzcoin =>
               /\ cres'.id = ConfigID
               /\ btrie[ConfigID].cid # ConfigContractID
                    => Condition(cres'.err) = "NotFound" /\ cci' = cci
               /\ cres'.err = NilErr
                    => cci' = [exists |-> TRUE,
                               instance |-> [id |-> ConfigID, inst |-> btrie[ConfigID]],
                               chainConfig |-> btrie[ConfigID].val]
          /\ \A k \in IIDs :
               FromByzcoinProof(k) =>
                 /\ btrie[k].cid # ConfigContractID
                      => Condition(cres'.err) = "NotFound" /\ cci' = cci
                 /\ cres'.err = NilErr
                      => cci' = [exists |-> TRUE,
                                 instance |-> [id |-> k, inst |-> btrie[k]],
                                 chainConfig |-> btrie[k].val]]_vars

\* with an object built from the configuration, a proof of a Write is rejected
C21_Witness ==
    /\ cci.exists
    /\ cci.instance.id = ConfigID
    /\ cres.op = "fromProof"
    /\ cres.tag = ContractWriteID
    /\ cres.err = ExcWrongContract

\* C22: evolveChainConfig returns after the submission and never changes the
\* configuration the object holds; evolveConfigAndWait replaces it by the new
\* one only when the wait for the rounds asked for has completed without an
\* exception, and leaves it as it was when signing, submission or wait fails.
C22_SendVariants ==
    [][/\ ccall.op = "evolve" =>
            /\ cci' = cci
            /\ (ccall'.op = "none" /\ cres'.err = NilErr) => ccall.pc = "send"
       /\ ccall.op = "evolveWait" =>
            /\ cci' # cci =>
                 /\ ccall.pc = "wait" /\ ccall.rounds = ccall.wait
                 /\ ccall'.op = "none" /\ cres'.err = NilErr
            /\ (ccall'.op = "none" /\ cres'.err = NilErr) =>
                 /\ ccall.pc = "wait" /\ ccall.rounds = ccall.wait
                 /\ cci' = [cci EXCEPT !.chainConfig = ccall.newConfig]
            /\ (ccall'.op = "none" /\ cres'.err # NilErr) => cci' = cci]_vars

\* a wait of two rounds completed and the object holds the new configuration,
\* beside the instance it had loaded
C22_Witness ==
    /\ cres.op = "evolveWait" /\ cres.err = NilErr
    /\ cres.wait = MaxWait /\ cres.rounds = MaxWait
    /\ cci.chainConfig = ConfigData(1)
    /\ cci.instance.inst.val = ConfigData(0)

\* C23: after Close() has returned, every Update, View or UpdateDryRun on the
\* store fails, without running its function and without changing what is
\* stored.
C23_ClosedStoreRefuses ==
    [][~open =>
         /\ ev'.type = "ret" /\ ev'.kind \in TxKinds
         /\ ev'.err # NilErr
         /\ ~ev'.invoked
         /\ db' = db
         /\ pc' = pc /\ \A p \in Procs : pc'[p] = "idle"
         /\ ~open']_vars

\* an UpdateDryRun on a closed store that holds a value was refused
C23_Witness ==
    /\ ~open
    /\ db # EmptyContent
    /\ ev = RetEv("UpdateDryRun", ClosedErr, FALSE, FALSE)

\* ------------------------------------------------------------------ roster claims
Members(r) == {r[i] : i \in 1..Len(r)}
DuplicateFree(r) == Cardinality(Members(r)) = Len(r)

\* C24: for every size n >= 1 of the stored roster the threshold
\* n - (n-1)/3 is more than two thirds of n and at most n, so a reshare to a
\* roster that contains every member of the stored one passes the overlap
\* check.
C24_QuorumPasses ==
    (ReshareCompared /\ Len(CurRoster) >= 1) =>
        LET n == Len(CurRoster)
            thr == Threshold(n)
        IN  /\ 3 * thr > 2 * n
            /\ 1 <= thr /\ thr <= n
            /\ Members(CurRoster) \subseteq Members(NewRoster) => lres.err # ErrOverlap

\* C26: for an instance spawned with a non-empty roster without duplicates,
\* a reshare that succeeds puts a non-empty roster in its place that shares
\* at least the threshold of members with the one stored before, and a reshare
\* that fails leaves the stored roster as it was; Spawn stores any roster that
\* decodes. Stated for the reshares of an instance at version 0, whose roster
\* is the one it was spawned with.
C26_RosterContinuity ==
    /\ (/\ ReshareCompared
        /\ lres.before.ver = 0
        /\ CurRoster # <<>> /\ DuplicateFree(CurRoster))
       => /\ lres.err = NilErr
               => /\ NewRoster # <<>>
                  /\ blive[lres.inst.iid].val.ros = NewRoster
                  /\ Cardinality(Members(CurRoster) \cap Members(NewRoster))
                       >= Threshold(Len(CurRoster))
          /\ lres.err # NilErr => blive[lres.inst.iid] = lres.before
    /\ (/\ lres.type = "lts" /\ lres.inst.type = "Spawn"
        /\ lres.before # NoInst /\ lres.inst.arg.tag = "lts")
       => lres.err \in {NilErr, ErrStateChange}

\* ------------------------------------------------------------------ ledger claims
\* every Read of the instances T references a stored Write
ReadsReferToWrites(T) ==
    \A i \in IIDs :
        T[i].cid = ContractReadID
        => /\ DecodesAsRead(T[i].val)
           /\ T[T[i].val.ref].cid = ContractWriteID

\* C25: in every state that Spawn, Invoke and Delete instructions on Write,
\* Read and LongTermSecret instances lead to, every stored Read references an
\* InstanceID stored with contract ID calypsoWrite, in the committed instances
\* and in the live transaction of a running batch.
C25_ReadsReferToWrites ==
    /\ ReadsReferToWrites(btrie)
    /\ ReadsReferToWrites(blive)

\* a Read and the Write it references are committed, and a batch that went for
\* the Write afterwards failed on it
C25_Witness ==
    /\ \E i \in IIDs : btrie[i].cid = ContractReadID /\ btrie[btrie[i].val.ref].cid = ContractWriteID
    /\ bres.type = "batch" /\ bres.mode = "apply"
    /\ bres.err = ErrUnsupported
    /\ bres.pos = 1

\* ------------------------------------------------------------------ checker claims
\* the goroutine of the call that returned last
Requester == gor[sret.call]
\* some check of the run failed and checkCothority reports it
FailureReported == ck.pc = "done" /\ ck.anyFailed => ck.ret = ErrTestsFailed

\* C27 as stated: a sign request returns exactly one of the verified
\* response, the request's error and a timeout error; it returns rather than
\* waits for ever; checkCothority reports an error if a check failed.
C27_ThreeOutcomes ==
    /\ [](sret.kind # "none" =>
            \/ sret.kind = "response" /\ sret.err = NilErr /\ sret.sig
            \/ sret.kind = "error" /\ sret.err \in {ErrRequest, ErrTimeout})
    /\ (ss.pc = "select") ~> (ss.pc = "none")
    /\ []FailureReported

\* C27 amended: a sign request returns exactly one of the verified response,
\* the request's error, the verification error of a response whose signature
\* does not verify, and a timeout error; each call returns once, and it
\* returns rather than waits for ever; checkCothority reports an error if a
\* check failed.
C27_OneOutcome ==
    /\ [](sret.kind # "none" =>
            \/ /\ sret.kind = "response" /\ sret.err = NilErr /\ sret.sig
               /\ Requester.pc = "done" /\ Requester.err = NilErr /\ Requester.sig
            \/ /\ sret.kind = "error" /\ sret.err = ErrRequest
               /\ Requester.pc = "done" /\ Requester.err = ErrRequest
            \/ /\ sret.kind = "error" /\ sret.err = ErrVerify
               /\ Requester.pc = "done" /\ Requester.err = NilErr /\ ~Requester.sig
            \/ sret.kind = "error" /\ sret.err = ErrTimeout)
    /\ [][sret' # sret => ss.pc = "select" /\ ss'.pc = "none" /\ sret'.call = ss.call]_vars
    /\ [][ss.pc = "select" /\ ss'.pc = "none" => sret'.call = ss.call /\ sret.call < ss.call]_vars
    /\ (ss.pc = "select") ~> (ss.pc = "none")
    /\ []FailureReported

\* the first request answered with a signature that does not verify, the last
\* one did not answer before the timeout, and checkCothority reported the
\* failure
C27_Witness ==
    /\ ck.pc = "done" /\ ck.ret = ErrTestsFailed
    /\ gor[1].pc = "done" /\ gor[1].err = NilErr /\ ~gor[1].sig /\ pchan[1] = <<>>
    /\ sret.err = ErrTimeout /\ Requester.pc = "request"

\* C28: the goroutine of a signStatement call sends once, a response or an
\* error, and its send never blocks, whether the caller is at its select or
\* has returned on the timeout; so it ends whenever the signature request
\* returns.
C28_SendNeverBlocks ==
    /\ [](\A k \in Calls :
            /\ gor[k].pc = "send" =>
                 CanSend(k, IF gor[k].err # NilErr THEN echan[k] ELSE pchan[k])
            /\ Len(pchan[k]) + Len(echan[k]) <= 1
            /\ pchan[k] # <<>> \/ echan[k] # <<>> => gor[k].pc = "done")
    /\ \A k \in Calls : (gor[k].pc = "send") ~> (gor[k].pc = "done")

\* the caller of call 1 returned on the timeout; the request returned later
\* and the goroutine ended, its response left in pchan
C28_Witness ==
    /\ ss.call > 1
    /\ gor[1].pc = "done" /\ gor[1].err = NilErr
    /\ pchan[1] # <<>>

====
